---------------------------- MODULE Spec2Model ----------------------------
(***************************************************************************)
(* Model of the seyeon-oversight trading engine                            *)
(* (crates/seyeon_trading_engine): indicator frame, signal scorer, trade   *)
(* simulator and portfolio analytics.                                       *)
(*                                                                          *)
(* Numbers.  f64 values are fixed-point integers:                           *)
(*   prices, indicator values, cash : hundredths (10000 stands for 100.00)  *)
(*   amounts of the asset           : hundredths of a unit                  *)
(*   fractions of Params            : thousandths (350 stands for 0.35)     *)
(*   datetime                       : whole days                            *)
(* A comparison against a decimal constant is cross-multiplied, so it is    *)
(* exact; a division rounds down.  A frame cell is null, NaN or a number,   *)
(* and a comparison with NaN is false as in IEEE-754.                       *)
(***************************************************************************)
EXTENDS Integers, Sequences, FiniteSets, TLC

VARIABLES final_df, fgi, params, current_cash, held, trade_history, position,
          pc, idx, in_position, waiting_for_better_entry, last_sell_price,
          consecutive_losses, event, summary, origin, historical,
          price_data, corr_result,
          \* compare_assets_performance: its argument and its result
          assets_data, performance,
          \* the driver (apps/oversight): date, stored ReportStatus, the
          \* locals of main's loop and of startup, and what was emitted
          today, store, daily_report, asset_i, portfolio_signals,
          startup_result, report_runs, reports_sent, iterations,
          \* the pair generate_signal returned, when it is called on its own
          signals

\* the engine and the correlation analytics
engineVars == <<final_df, fgi, params, current_cash, held, trade_history,
                position, idx, in_position, waiting_for_better_entry,
                last_sell_price, consecutive_losses, event, summary,
                historical, price_data, corr_result>>

compareVars == <<assets_data, performance>>

driverVars == <<today, store, daily_report, asset_i, portfolio_signals,
                startup_result, report_runs, reports_sent, iterations>>

vars == <<engineVars, pc, origin, compareVars, driverVars, signals>>

(***************************************************************************)
(* Cells of a frame and IEEE-like comparisons                              *)
(***************************************************************************)
Num(x) == [tag |-> "num", v |-> x]
NullCell == [tag |-> "null", v |-> 0]
NaNCell == [tag |-> "nan", v |-> 0]
IsNull(c) == c.tag = "null"
IsNum(c) == c.tag = "num"

\* Option::unwrap_or on a cell read with .get(idx)
UnwrapOr(c, d) == IF IsNull(c) THEN Num(d) ELSE c

\* a * ka > b * kb and friends; false when either side is NaN
GT(a, ka, b, kb) == IsNum(a) /\ IsNum(b) /\ a.v * ka > b.v * kb
LT(a, ka, b, kb) == IsNum(a) /\ IsNum(b) /\ a.v * ka < b.v * kb
GE(a, ka, b, kb) == IsNum(a) /\ IsNum(b) /\ a.v * ka >= b.v * kb
LE(a, ka, b, kb) == IsNum(a) /\ IsNum(b) /\ a.v * ka =< b.v * kb

\* floor(a * b / c) for a >= 0, b >= 0, c > 0 without a wide intermediate
MulDiv(a, b, c) == (a \div c) * b + ((a % c) * b) \div c

Min2(a, b) == IF a < b THEN a ELSE b
Abs(x) == IF x < 0 THEN -x ELSE x

None == << >>
Some(x) == <<x>>
IsSome(o) == o # << >>

\* row idx (0-based, as in the source) of a frame
Row(df, i) == df[i + 1]
Height(df) == Len(df)

(***************************************************************************)
(* Params                                                                  *)
(***************************************************************************)
DefaultParams ==
  [ initial_capital             |-> 1000000,
    initial_investment_fraction |-> 350,
    dca_buy_threshold           |-> 100,
    dca_buy_fraction            |-> 750,
    profit_sell_threshold       |-> 200,
    profit_sell_fraction        |-> 400,
    generic_fee                 |-> 5,
    buy_threshold               |-> 3,
    sell_threshold              |-> 2 ]

(***************************************************************************)
(* SignalScorer                                                            *)
(***************************************************************************)
\* The columns generate_signal reads with a bare unwrap(): a null there
\* panics.
RequiredNull(r) ==
  \/ IsNull(r.price) \/ IsNull(r.ma25) \/ IsNull(r.ma50)
  \/ IsNull(r.ma5) \/ IsNull(r.macd) \/ IsNull(r.signal)

VolatilityHigh(atr14, price) == GT(atr14, 100, price, 3)

\* mutant: the legacy count threshold of Params in place of the score bar
BuyThresholdLegacy(volatility_high) == DefaultParams.buy_threshold

BuyThreshold(volatility_high) == IF volatility_high THEN 70 ELSE 60

\* mutant: a strong uptrend does not raise the sell bar
SellThresholdNoTrend(volatility_high, strong_uptrend) ==
  IF volatility_high THEN 65 ELSE 70

SellThreshold(volatility_high, strong_uptrend) ==
  (IF volatility_high THEN 65 ELSE 70) + (IF strong_uptrend THEN 10 ELSE 0)

BuyScore(r, f) ==
  LET price == r.price
      rsi == UnwrapOr(r.rsi, 5000)
      lower_band == UnwrapOr(r.lower_band, (price.v * 9) \div 10)
      vma20 == UnwrapOr(r.vma20, price.v)
  IN  (IF GT(price, 1, r.ma5, 1) THEN 5 ELSE 0)
    + (IF GT(price, 1, r.ma25, 1) THEN 10 ELSE 0)
    + (IF GT(r.ma5, 1, r.ma25, 1) THEN 15 ELSE 0)
    + (IF GT(r.macd, 1, r.signal, 1) THEN 15 ELSE 0)
    + (IF GT(r.macd, 1, Num(0), 1) THEN 10 ELSE 0)
    + (IF LT(rsi, 1, Num(3000), 1) THEN 20
       ELSE IF LT(rsi, 1, Num(4000), 1) THEN 10 ELSE 0)
    + (IF LE(price, 100, lower_band, 102) THEN 15
       ELSE IF LE(price, 100, lower_band, 105) THEN 10 ELSE 0)
    + (IF GT(vma20, 10, price, 9) THEN 10 ELSE 0)
    + (IF f < 25 THEN 15
       ELSE IF f < 40 THEN 10
       ELSE IF f > 80 THEN -15
       ELSE IF f > 65 THEN -10 ELSE 0)

SellScore(r, f) ==
  LET price == r.price
      rsi == UnwrapOr(r.rsi, 5000)
      upper_band == UnwrapOr(r.upper_band, (price.v * 11) \div 10)
      vma20 == UnwrapOr(r.vma20, price.v)
  IN  (IF LT(price, 1, r.ma5, 1) THEN 5 ELSE 0)
    + (IF LT(price, 1, r.ma25, 1) THEN 10 ELSE 0)
    + (IF LT(r.ma5, 1, r.ma25, 1) THEN 15 ELSE 0)
    + (IF LT(r.macd, 1, r.signal, 1) THEN 15 ELSE 0)
    + (IF LT(r.macd, 1, Num(0), 1) THEN 10 ELSE 0)
    + (IF GT(rsi, 1, Num(7000), 1) THEN 20
       ELSE IF GT(rsi, 1, Num(6500), 1) THEN 10 ELSE 0)
    + (IF GE(price, 100, upper_band, 98) THEN 15
       ELSE IF GE(price, 100, upper_band, 95) THEN 10 ELSE 0)
    + (IF LT(vma20, 1, price, 1) THEN 10 ELSE 0)
    + (IF f > 80 THEN 15
       ELSE IF f > 65 THEN 10
       ELSE IF f < 20 THEN -10 ELSE 0)

\* generate_signal(idx): fault stands for the panic of an unwrap() on null
GenerateSignal(df, f, i) ==
  LET r == Row(df, i)
  IN IF RequiredNull(r)
     THEN [fault |-> TRUE, buy |-> FALSE, sell |-> FALSE]
     ELSE
       LET price == r.price
           ma111 == UnwrapOr(r.ma111, (price.v * 9) \div 10)
           atr14 == UnwrapOr(r.atr14, (price.v * 5) \div 100)
           volatility_high == VolatilityHigh(atr14, price)
           strong_uptrend == /\ GT(r.ma5, 1, r.ma25, 1)
                             /\ GT(r.ma25, 1, r.ma50, 1)
                             /\ GT(r.ma50, 1, ma111, 1)
       IN [fault |-> FALSE,
           buy   |-> BuyScore(r, f) >= BuyThreshold(volatility_high),
           sell  |-> SellScore(r, f) >=
                       SellThreshold(volatility_high, strong_uptrend)]

CountTrades(th, kind) ==
  Cardinality({k \in 1..Len(th) : th[k].trade_type = kind})

\* `dca_buy_count >= 3`, counted over the whole trade_history
DcaLimitReached(th) == CountTrades(th, "DcaBuy") >= 3

DcaBuyScore(pos, th, r, f, prm) ==
  LET price == r.price
      avg == Num(pos.avg_price)
      rsi == UnwrapOr(r.rsi, 5000)
      lower_band == UnwrapOr(r.lower_band, (price.v * 9) \div 10)
      macd == UnwrapOr(r.macd, 0)
      signal == UnwrapOr(r.signal, 0)
      ma25 == UnwrapOr(r.ma25, price.v)
      ma50 == UnwrapOr(r.ma50, price.v)
      atr14 == UnwrapOr(r.atr14, (price.v * 5) \div 100)
      price_below_avg == LT(price, 1000, avg, 1000 - prm.dca_buy_threshold)
      price_near_lower_band == LE(price, 100, lower_band, 103)
      macd_bullish ==
        \/ GT(macd, 1, signal, 1)
        \/ /\ LT(macd, 1, Num(0), 1)
           /\ GT(macd, 10, Num(Abs(macd.v)), -3)
           /\ GT(macd, 1, signal, 1)
      near_support ==
        \/ LE(price, 100, ma25, 102) /\ GE(price, 100, ma25, 98)
        \/ LE(price, 100, ma50, 102) /\ GE(price, 100, ma50, 98)
      volatility_high == VolatilityHigh(atr14, price)
      dca_limit_reached == DcaLimitReached(th)
      extreme_fear == f < 20
  IN  (IF LT(price, 100, avg, 85) THEN 40
       ELSE IF LT(price, 100, avg, 90) THEN 30
       ELSE IF LT(price, 100, avg, 92) THEN 20
       ELSE IF price_below_avg THEN 10 ELSE 0)
    + (IF LT(rsi, 1, Num(2500), 1) THEN 20
       ELSE IF LT(rsi, 1, Num(3000), 1) THEN 15
       ELSE IF LT(rsi, 1, Num(3500), 1) THEN 10 ELSE 0)
    + (IF price_near_lower_band THEN 15 ELSE 0)
    + (IF macd_bullish THEN 10 ELSE 0)
    + (IF near_support THEN 5 ELSE 0)
    + (IF extreme_fear THEN 10 ELSE 0)
    + (IF volatility_high THEN 5 ELSE 0)
    - (IF dca_limit_reached THEN 30 ELSE 0)

\* mutant: the bar of the DCA-buy score is 50
CheckDcaBuyOpportunityLowBar(pos_opt, cash, th, df, f, prm, i) ==
  IF ~IsSome(pos_opt) THEN FALSE
  ELSE /\ DcaBuyScore(pos_opt[1], th, Row(df, i), f, prm) >= 50
       /\ cash >= 20000

\* mutant: without a position the score is taken against the row's price
CheckDcaBuyOpportunityUnguarded(pos_opt, cash, th, df, f, prm, i) ==
  LET pos == IF IsSome(pos_opt) THEN pos_opt[1]
             ELSE [avg_price |-> Row(df, i).price.v, amount |-> 0,
                   investment |-> 0, entry_time |-> 0]
  IN /\ DcaBuyScore(pos, th, Row(df, i), f, prm) >= 60
     /\ cash >= 20000

CheckDcaBuyOpportunity(pos_opt, cash, th, df, f, prm, i) ==
  IF ~IsSome(pos_opt) THEN FALSE
  ELSE /\ DcaBuyScore(pos_opt[1], th, Row(df, i), f, prm) >= 60
       /\ cash >= 20000

DcaSellScore(pos, r, f, prm) ==
  LET price == r.price
      avg == pos.avg_price
      gain == Num(price.v - avg)
      rsi == UnwrapOr(r.rsi, 5000)
      upper_band == UnwrapOr(r.upper_band, (price.v * 11) \div 10)
      macd == UnwrapOr(r.macd, 0)
      signal == UnwrapOr(r.signal, 0)
      ma5 == UnwrapOr(r.ma5, price.v)
      ma25 == UnwrapOr(r.ma25, price.v)
      vma20 == UnwrapOr(r.vma20, price.v)
      macd_bearish == LT(macd, 1, signal, 1) /\ GT(macd, 1, Num(0), 1)
      price_near_upper_band == GE(price, 100, upper_band, 95)
      ma_turning_down == LT(ma5, 1000, ma5, 1005) /\ GT(ma5, 1, ma25, 1)
      volume_confirmation == GT(vma20, 1, price, 1)
      extreme_greed == f > 75
  IN  (IF GT(gain, 100, Num(avg), 25) THEN 40
       ELSE IF GT(gain, 100, Num(avg), 20) THEN 30
       ELSE IF GT(gain, 100, Num(avg), 15) THEN 20
       ELSE IF GT(gain, 1000, Num(avg), prm.profit_sell_threshold) THEN 15
       ELSE 0)
    + (IF GT(rsi, 1, Num(8000), 1) THEN 25
       ELSE IF GT(rsi, 1, Num(7500), 1) THEN 20
       ELSE IF GT(rsi, 1, Num(7000), 1) THEN 15
       ELSE IF GT(rsi, 1, Num(6500), 1) THEN 10 ELSE 0)
    + (IF price_near_upper_band THEN 15 ELSE 0)
    + (IF macd_bearish THEN 10 ELSE 0)
    + (IF ma_turning_down THEN 5 ELSE 0)
    + (IF extreme_greed THEN 5 ELSE 0)
    + (IF ~volume_confirmation THEN 5 ELSE 0)

DcaSellThreshold(pos, th, r) ==
  IF (r.price.v - pos.avg_price) * 100 > pos.avg_price * 25 THEN 65 - 10
  ELSE IF CountTrades(th, "PartialSell") >= 2 THEN 65 + 15
  ELSE 65

CheckDcaSellOpportunity(pos_opt, th, df, f, prm, i) ==
  IF ~IsSome(pos_opt) THEN FALSE
  ELSE LET pos == pos_opt[1]
           r == Row(df, i)
       IN IF r.price.v =< pos.avg_price THEN FALSE
          ELSE DcaSellScore(pos, r, f, prm) >= DcaSellThreshold(pos, th, r)


(***************************************************************************)
(* TradeSimulator: the trade operations.  e is the engine's mutable state  *)
(* [current_cash, held, position, trade_history], r the row at idx.        *)
(***************************************************************************)
Trade(kind, r, price, amount) ==
  [trade_type |-> kind, datetime |-> r.datetime, price |-> price,
   amount |-> amount]

EnterTrade(e, r, prm, investment_fraction) ==
  LET price == r.price.v
      investment == MulDiv(e.current_cash, investment_fraction, 1000)
      fee == MulDiv(investment, prm.generic_fee, 1000)
      amount == ((investment - fee) * 100) \div price
  IN [current_cash  |-> e.current_cash - investment,
      held          |-> e.held + amount,
      position      |-> Some([avg_price  |-> price,
                              amount     |-> amount,
                              investment |-> investment,
                              entry_time |-> r.datetime]),
      trade_history |-> Append(e.trade_history,
                               Trade("Buy", r, price, amount))]

\* investment_scale of dca_buy, in thousandths
DcaInvestmentScale(avg_price, price, prm) ==
  LET drop == avg_price - price
  IN IF drop * 100 > avg_price * 20 THEN 1000
     ELSE IF drop * 100 > avg_price * 15 THEN 900
     ELSE IF drop * 100 > avg_price * 10 THEN prm.dca_buy_fraction
     ELSE (prm.dca_buy_fraction * 8) \div 10

\* mutant: the fee is charged on top of the investment
DcaBuyFeeOnTop(e, r, prm) ==
  IF ~IsSome(e.position) THEN e
  ELSE
    LET pos == e.position[1]
        price == r.price.v
        investment == MulDiv(e.current_cash,
                             DcaInvestmentScale(pos.avg_price, price, prm),
                             1000)
        fee == MulDiv(investment, prm.generic_fee, 1000)
        amount == (investment * 100) \div price
        total_amount == pos.amount + amount
    IN IF investment < 10000 THEN e
       ELSE [current_cash  |-> e.current_cash - investment - fee,
             held          |-> e.held + amount,
             position      |-> Some(
               [avg_price  |-> (pos.avg_price * pos.amount + price * amount)
                                 \div total_amount,
                amount     |-> total_amount,
                investment |-> pos.investment + investment,
                entry_time |-> pos.entry_time]),
             trade_history |-> Append(e.trade_history,
                                      Trade("DcaBuy", r, price, amount))]

\* mutant: no minimum on the investment
DcaBuyNoMinimum(e, r, prm) ==
  IF ~IsSome(e.position) THEN e
  ELSE
    LET pos == e.position[1]
        price == r.price.v
        investment == MulDiv(e.current_cash,
                             DcaInvestmentScale(pos.avg_price, price, prm),
                             1000)
        fee == MulDiv(investment, prm.generic_fee, 1000)
        amount == ((investment - fee) * 100) \div price
        total_amount == pos.amount + amount
    IN [current_cash  |-> e.current_cash - investment,
        held          |-> e.held + amount,
        position      |-> Some(
          [avg_price  |-> (pos.avg_price * pos.amount + price * amount)
                            \div total_amount,
           amount     |-> total_amount,
           investment |-> pos.investment + investment,
           entry_time |-> pos.entry_time]),
        trade_history |-> Append(e.trade_history,
                                 Trade("DcaBuy", r, price, amount))]

DcaBuy(e, r, prm) ==
  IF ~IsSome(e.position) THEN e
  ELSE
    LET pos == e.position[1]
        price == r.price.v
        investment == MulDiv(e.current_cash,
                             DcaInvestmentScale(pos.avg_price, price, prm),
                             1000)
        fee == MulDiv(investment, prm.generic_fee, 1000)
        amount == ((investment - fee) * 100) \div price
        total_amount == pos.amount + amount
    IN IF investment < 10000 THEN e
       ELSE [current_cash  |-> e.current_cash - investment,
             held          |-> e.held + amount,
             position      |-> Some(
               [avg_price  |-> (pos.avg_price * pos.amount + price * amount)
                                 \div total_amount,
                amount     |-> total_amount,
                investment |-> pos.investment + investment,
                entry_time |-> pos.entry_time]),
             trade_history |-> Append(e.trade_history,
                                      Trade("DcaBuy", r, price, amount))]

PartialSell(e, r, prm) ==
  IF ~IsSome(e.position) THEN e
  ELSE
    LET pos == e.position[1]
        price == r.price.v
        sell_amount == MulDiv(pos.amount, prm.profit_sell_fraction, 1000)
        investment_value == (sell_amount * price) \div 100
        fee == MulDiv(investment_value, prm.generic_fee, 1000)
        proceeds == investment_value - fee
    IN IF price * 1000 > pos.avg_price * (1000 + prm.profit_sell_threshold)
       THEN [current_cash  |-> e.current_cash + proceeds,
             held          |-> e.held - sell_amount,
             position      |-> Some([pos EXCEPT
                                       !.amount = pos.amount - sell_amount]),
             trade_history |-> Append(e.trade_history,
                                 Trade("PartialSell", r, price, sell_amount))]
       ELSE e

\* mutant: the sale leaves the emptied Position in place
FullSellKeepsPosition(e, r, prm) ==
  IF ~IsSome(e.position) THEN e
  ELSE
    LET pos == e.position[1]
        price == r.price.v
        sell_amount == pos.amount
        investment_value == (sell_amount * price) \div 100
        fee == MulDiv(investment_value, prm.generic_fee, 1000)
        proceeds == investment_value - fee
    IN IF price > pos.avg_price
       THEN [current_cash  |-> e.current_cash + proceeds,
             held          |-> e.held - sell_amount,
             position      |-> Some([pos EXCEPT !.amount = 0]),
             trade_history |-> Append(e.trade_history,
                                 Trade("FullSell", r, price, sell_amount))]
       ELSE e

FullSell(e, r, prm) ==
  IF ~IsSome(e.position) THEN e
  ELSE
    LET pos == e.position[1]
        price == r.price.v
        sell_amount == pos.amount
        investment_value == (sell_amount * price) \div 100
        fee == MulDiv(investment_value, prm.generic_fee, 1000)
        proceeds == investment_value - fee
    IN IF price > pos.avg_price
       THEN [current_cash  |-> e.current_cash + proceeds,
             held          |-> e.held - sell_amount,
             position      |-> None,
             trade_history |-> Append(e.trade_history,
                                 Trade("FullSell", r, price, sell_amount))]
       ELSE e

\* mutant: the terminal sale reads row 0 instead of the last row
FinalSellFirstRow(e, df, prm) ==
  IF ~IsSome(e.position) THEN e
  ELSE
    LET pos == e.position[1]
        r == Row(df, 0)
        price == r.price.v
        sell_price == IF price < pos.avg_price THEN pos.avg_price ELSE price
        sell_amount == pos.amount
        investment_value == (sell_amount * sell_price) \div 100
        fee == MulDiv(investment_value, prm.generic_fee, 1000)
        proceeds == investment_value - fee
    IN [current_cash  |-> e.current_cash + proceeds,
        held          |-> e.held - sell_amount,
        position      |-> None,
        trade_history |-> Append(e.trade_history,
                            Trade("FinalSell", r, sell_price, sell_amount))]

\* final_sell reads the last row of the frame
\* mutant: the terminal sale is marked at the last price, also at a loss
FinalSellAtMarket(e, df, prm) ==
  IF ~IsSome(e.position) THEN e
  ELSE
    LET pos == e.position[1]
        r == Row(df, Height(df) - 1)
        sell_price == r.price.v
        sell_amount == pos.amount
        investment_value == (sell_amount * sell_price) \div 100
        fee == MulDiv(investment_value, prm.generic_fee, 1000)
        proceeds == investment_value - fee
    IN [current_cash  |-> e.current_cash + proceeds,
        held          |-> e.held - sell_amount,
        position      |-> None,
        trade_history |-> Append(e.trade_history,
                            Trade("FinalSell", r, sell_price, sell_amount))]

FinalSell(e, df, prm) ==
  IF ~IsSome(e.position) THEN e
  ELSE
    LET pos == e.position[1]
        r == Row(df, Height(df) - 1)
        price == r.price.v
        sell_price == IF price < pos.avg_price THEN pos.avg_price ELSE price
        sell_amount == pos.amount
        investment_value == (sell_amount * sell_price) \div 100
        fee == MulDiv(investment_value, prm.generic_fee, 1000)
        proceeds == investment_value - fee
    IN [current_cash  |-> e.current_cash + proceeds,
        held          |-> e.held - sell_amount,
        position      |-> None,
        trade_history |-> Append(e.trade_history,
                            Trade("FinalSell", r, sell_price, sell_amount))]


(***************************************************************************)
(* TradeSimulator: one iteration of the loop of run_simulation.  st is the *)
(* engine state together with the loop's locals.                           *)
(***************************************************************************)
EngineOf(st) ==
  [current_cash |-> st.current_cash, held |-> st.held,
   position |-> st.position, trade_history |-> st.trade_history]

WithEngine(st, e) ==
  [st EXCEPT !.current_cash = e.current_cash, !.held = e.held,
             !.position = e.position, !.trade_history = e.trade_history]

\* mutant: any buy_now counts as a strong buying signal
StrongBuyingSignalAnyBuy(r, buy_signal) == buy_signal

StrongBuyingSignal(r, buy_signal) ==
  /\ buy_signal
  /\ LT(UnwrapOr(r.rsi, 5000), 1, Num(3500), 1)
  /\ LT(r.price, 1, UnwrapOr(r.ma25, r.price.v), 1)

\* mutant: only a price above the last sale keeps the simulator waiting
WaitForBetterEntryAbove(st, r) ==
  st.waiting_for_better_entry /\ r.price.v > st.last_sell_price

\* `if waiting_for_better_entry && price >= last_sell_price { continue; }`
WaitForBetterEntry(st, r) ==
  st.waiting_for_better_entry /\ r.price.v >= st.last_sell_price

\* the branch `if !in_position`
EntryStep(st, r, prm, buy_signal) ==
  LET strong == StrongBuyingSignal(r, buy_signal)
      price == r.price.v
      frac == prm.initial_investment_fraction
  IN IF WaitForBetterEntry(st, r)
     THEN st
     ELSE IF st.consecutive_losses >= 2
     THEN IF strong /\ st.current_cash > 10000
          THEN [WithEngine(st, EnterTrade(EngineOf(st), r, prm,
                                          (frac * 7) \div 10))
                  EXCEPT !.in_position = TRUE,
                         !.waiting_for_better_entry = FALSE]
          ELSE st
     ELSE IF buy_signal /\ st.current_cash > 10000
          THEN LET investment_fraction ==
                     IF strong THEN (frac * 12) \div 10 ELSE frac
               IN [WithEngine(st, EnterTrade(EngineOf(st), r, prm,
                                    Min2(investment_fraction, 700)))
                     EXCEPT !.in_position = TRUE,
                            !.waiting_for_better_entry = FALSE]
          ELSE st

\* mutant: the full exit on sell_signal is tried before the partial sell
ManageStepExitFirst(st, r, prm, is_dca_buy, is_dca_sell, sell_signal) ==
  IF is_dca_buy THEN WithEngine(st, DcaBuy(EngineOf(st), r, prm))
  ELSE IF sell_signal /\ IsSome(st.position)
          /\ r.price.v > st.position[1].avg_price
       THEN [WithEngine(st, FullSell(EngineOf(st), r, prm))
               EXCEPT !.in_position = FALSE,
                      !.last_sell_price = r.price.v,
                      !.waiting_for_better_entry = TRUE,
                      !.consecutive_losses = 0]
  ELSE IF is_dca_sell THEN WithEngine(st, PartialSell(EngineOf(st), r, prm))
  ELSE st

\* the chain `if is_dca_buy .. else if is_dca_sell .. else if sell_signal`
ManageStep(st, r, prm, is_dca_buy, is_dca_sell, sell_signal) ==
  IF is_dca_buy THEN WithEngine(st, DcaBuy(EngineOf(st), r, prm))
  ELSE IF is_dca_sell THEN WithEngine(st, PartialSell(EngineOf(st), r, prm))
  ELSE IF sell_signal /\ IsSome(st.position)
          /\ r.price.v > st.position[1].avg_price
       THEN [WithEngine(st, FullSell(EngineOf(st), r, prm))
               EXCEPT !.in_position = FALSE,
                      !.last_sell_price = r.price.v,
                      !.waiting_for_better_entry = TRUE,
                      !.consecutive_losses = 0]
       ELSE st

\* "Risk management - cut losses": runs after ManageStep on the same row
LossStopDue(st, r) ==
  /\ IsSome(st.position)
  /\ r.price.v * 10 < st.position[1].avg_price * 8
  /\ r.datetime - st.position[1].entry_time > 14
  /\ GT(UnwrapOr(r.rsi, 5000), 1, Num(4000), 1)

LossStop(st, r, prm) ==
  IF LossStopDue(st, r)
  THEN [WithEngine(st, FullSell(EngineOf(st), r, prm))
          EXCEPT !.in_position = FALSE,
                 !.consecutive_losses = st.consecutive_losses + 1]
  ELSE st

\* the body of `for idx in start_idx..total_data`
RowStep(st, df, f, prm, i) ==
  LET r == Row(df, i)
      sig == GenerateSignal(df, f, i)
      is_dca_buy == CheckDcaBuyOpportunity(st.position, st.current_cash,
                                           st.trade_history, df, f, prm, i)
      is_dca_sell == CheckDcaSellOpportunity(st.position, st.trade_history,
                                             df, f, prm, i)
  IN IF ~st.in_position
     THEN EntryStep(st, r, prm, sig.buy)
     ELSE LossStop(ManageStep(st, r, prm, is_dca_buy, is_dca_sell, sig.sell),
                   r, prm)

StartIdx(total_data) == IF total_data > 365 THEN total_data - 365 ELSE 0

(***************************************************************************)
(* poll_event and get_summary                                              *)
(***************************************************************************)
\* mutant: Buy does not look at sell_signal
PollSignalBuyFirst(is_dca_buy, is_dca_sell, buy_signal, sell_signal) ==
  IF is_dca_buy THEN "DcaBuy"
  ELSE IF is_dca_sell THEN "DcaSell"
  ELSE IF buy_signal THEN "Buy"
  ELSE IF sell_signal THEN "Sell"
  ELSE "Hold"

PollSignal(is_dca_buy, is_dca_sell, buy_signal, sell_signal) ==
  IF is_dca_buy THEN "DcaBuy"
  ELSE IF is_dca_sell THEN "DcaSell"
  ELSE IF buy_signal /\ ~sell_signal THEN "Buy"
  ELSE IF sell_signal /\ ~buy_signal THEN "Sell"
  ELSE "Hold"

PollEventOf(e, df, f, prm) ==
  LET i == Height(df) - 1
      r == Row(df, i)
      sig == GenerateSignal(df, f, i)
  IN [datetime |-> r.datetime, price |-> r.price.v,
      signal |-> PollSignal(
        CheckDcaBuyOpportunity(e.position, e.current_cash, e.trade_history,
                               df, f, prm, i),
        CheckDcaSellOpportunity(e.position, e.trade_history, df, f, prm, i),
        sig.buy, sig.sell)]

RECURSIVE SumFees(_, _)
SumFees(th, fee) ==
  IF th = << >> THEN 0
  ELSE MulDiv((Head(th).price * Head(th).amount) \div 100, fee, 1000)
       + SumFees(Tail(th), fee)

\* roi is in hundredths of a percent
GetSummary(e, df, prm) ==
  LET final_price == Row(df, Height(df) - 1).price.v
      final_portfolio_value == e.current_cash + (e.held * final_price) \div 100
      profit == final_portfolio_value - prm.initial_capital
  IN [initial_capital       |-> prm.initial_capital,
      final_portfolio_value |-> final_portfolio_value,
      roi                   |-> MulDiv(profit * 100, 100, prm.initial_capital),
      num_trades            |-> Len(e.trade_history),
      estimated_fees_paid   |-> SumFees(e.trade_history, prm.generic_fee)]


(***************************************************************************)
(* IndicatorEngine (indicators.rs).  A column is a sequence of cells.      *)
(***************************************************************************)
RECURSIVE SumCells(_, _, _)
\* sum of the non-null cells xs[lo..hi]
SumCells(xs, lo, hi) ==
  IF lo > hi THEN 0
  ELSE (IF IsNum(xs[hi]) THEN xs[hi].v ELSE 0) + SumCells(xs, lo, hi - 1)

CountCells(xs, lo, hi) == Cardinality({k \in lo..hi : IsNum(xs[k])})

\* window(size): the fields left to ..Default::default() keep the defaults
\* of RollingOptionsFixedWindow, whose min_periods is 1
window(size) == [window_size |-> size, min_periods |-> 1]

WinLo(opt, t) == IF t - opt.window_size + 1 < 1 THEN 1
                 ELSE t - opt.window_size + 1

\* Expr::rolling_mean(opt), cell t (1-based)
RollingMean(xs, opt, t) ==
  LET lo == WinLo(opt, t)
      n == CountCells(xs, lo, t)
  IN IF n < opt.min_periods \/ n = 0 THEN NullCell
     ELSE Num(SumCells(xs, lo, t) \div n)

\* Expr::rolling_sum(opt), cell t
RollingSum(xs, opt, t) ==
  LET lo == WinLo(opt, t)
      n == CountCells(xs, lo, t)
  IN IF n < opt.min_periods \/ n = 0 THEN NullCell
     ELSE Num(SumCells(xs, lo, t))

ISqrt(x) == CHOOSE q \in 0..2000 : q * q =< x /\ x < (q + 1) * (q + 1)

RECURSIVE SumSqDev(_, _, _, _, _)
\* sum over xs[lo..hi] of (n * x - total)^2
SumSqDev(xs, lo, hi, n, total) ==
  IF lo > hi THEN 0
  ELSE (n * xs[hi].v - total) * (n * xs[hi].v - total)
       + SumSqDev(xs, lo, hi - 1, n, total)

\* Expr::rolling_std(opt), cell t, sample deviation (ddof = 1); with one
\* observation the result is one_obs (see Std1Cells)
RollingStd(xs, opt, t, one_obs) ==
  LET lo == WinLo(opt, t)
      n == t - lo + 1
  IN IF n < opt.min_periods THEN NullCell
     ELSE IF n = 1 THEN one_obs
     ELSE Num(ISqrt(SumSqDev(xs, lo, t, n, SumCells(xs, lo, t))
                      \div (n * n * (n - 1))))

\* ewm_mean with alpha = 2 / (span + 1), adjust = true, min_periods = 1:
\* the pair <<weighted_avg, old_wt>> after cell t; weights in 1/10000
RECURSIVE EwmState(_, _, _)
EwmState(xs, span, t) ==
  IF t = 1 THEN <<xs[1].v, 10000>>
  ELSE LET prev == EwmState(xs, span, t - 1)
           old_wt == (prev[2] * (span - 1)) \div (span + 1)
           x == xs[t].v
       IN <<IF prev[1] # x
              THEN (old_wt * prev[1] + 10000 * x) \div (old_wt + 10000)
              ELSE prev[1],
            old_wt + 10000>>

calculate_ema(xs, span) == [t \in 1..Len(xs) |-> Num(EwmState(xs, span, t)[1])]

Shift1(xs, t) == IF t = 1 THEN NullCell ELSE xs[t - 1]

\* the value of a binary expression is null when an operand is null
AbsDiff(a, b) == IF IsNull(a) \/ IsNull(b) THEN NullCell
                 ELSE Num(Abs(a.v - b.v))

\* when(delta > 0).then(delta).otherwise(0): a null delta takes otherwise
Gain(a, b) == IF IsNull(a) \/ IsNull(b) THEN Num(0)
              ELSE IF a.v - b.v > 0 THEN Num(a.v - b.v) ELSE Num(0)
Loss(a, b) == IF IsNull(a) \/ IsNull(b) THEN Num(0)
              ELSE IF a.v - b.v < 0 THEN Num(Abs(a.v - b.v)) ELSE Num(0)

\* 100 - 100 / (1 + avg_gain / avg_loss) in f64: 0/0 is NaN, x/0 is +inf
Rsi(avg_gain, avg_loss) ==
  IF IsNull(avg_gain) \/ IsNull(avg_loss) THEN NullCell
  ELSE IF avg_loss.v = 0
       THEN (IF avg_gain.v = 0 THEN NaNCell ELSE Num(10000))
       ELSE Num(10000 - (10000 * avg_loss.v) \div (avg_gain.v + avg_loss.v))

\* sum(price * volume) / sum(volume) in f64: 0/0 is NaN
Vwma(pv_sum, v_sum) ==
  IF IsNull(pv_sum) \/ IsNull(v_sum) THEN NullCell
  ELSE IF v_sum.v = 0 THEN NaNCell
  ELSE Num(pv_sum.v \div v_sum.v)

Roc(xs, period, t) ==
  IF t - period < 1 THEN NullCell
  ELSE Num((xs[t].v * 10000) \div xs[t - period].v - 10000)

RECURSIVE CumMax(_, _)
CumMax(xs, t) ==
  IF t = 1 THEN xs[1].v
  ELSE IF xs[t].v > CumMax(xs, t - 1) THEN xs[t].v ELSE CumMax(xs, t - 1)

Scale2(c) == IF IsNum(c) THEN Num(2 * c.v) ELSE c

Band(ma, std, sign) ==
  IF IsNull(ma) \/ IsNull(std) THEN NullCell ELSE Num(ma.v + sign * 2 * std.v)

\* Indicators::new(data).calculate(): data is a sequence of DataPoints
Calculate(data, one_obs) ==
  LET n == Len(data)
      price == [t \in 1..n |-> Num(data[t].price)]
      volume == [t \in 1..n |-> Num(data[t].volume)]
      pv == [t \in 1..n |-> Num(data[t].price * data[t].volume)]
      ema12 == calculate_ema(price, 12)
      ema26 == calculate_ema(price, 26)
      macd == [t \in 1..n |-> Num(ema12[t].v - ema26[t].v)]
      signal == calculate_ema(macd, 9)
      tr == [t \in 1..n |-> AbsDiff(price[t], Shift1(price, t))]
      gain == [t \in 1..n |-> Gain(price[t], Shift1(price, t))]
      loss == [t \in 1..n |-> Loss(price[t], Shift1(price, t))]
  IN [t \in 1..n |->
       LET ma25 == RollingMean(price, window(25), t)
           ma350 == RollingMean(price, window(350), t)
           std20 == RollingStd(price, window(20), t, one_obs)
       IN [datetime   |-> data[t].datetime,
           price      |-> price[t],
           high       |-> Num(data[t].high),
           low        |-> Num(data[t].low),
           open       |-> Num(data[t].open),
           ma5        |-> RollingMean(price, window(5), t),
           ma25       |-> ma25,
           ma50       |-> RollingMean(price, window(50), t),
           ma365      |-> RollingMean(price, window(365), t),
           ma111      |-> RollingMean(price, window(111), t),
           ma350      |-> ma350,
           upper_band |-> Band(ma25, std20, 1),
           lower_band |-> Band(ma25, std20, -1),
           macd       |-> macd[t],
           signal     |-> signal[t],
           roc        |-> Roc(price, 12, t),
           vma20      |-> Vwma(RollingSum(pv, window(20), t),
                               RollingSum(volume, window(20), t)),
           atr14      |-> RollingMean(tr, window(14), t),
           pi_cycle_top |-> Scale2(ma350),
           ath        |-> Num(CumMax(price, t)),
           rsi        |-> Rsi(RollingMean(gain, window(14), t),
                              RollingMean(loss, window(14), t))]]


(***************************************************************************)
(* PortfolioAnalytics: correlation matrix.  A price vector is a sequence   *)
(* of integers; a correlation is in 1/10000.                               *)
(***************************************************************************)
RECURSIVE SumSeq(_)
SumSeq(xs) == IF xs = << >> THEN 0 ELSE Head(xs) + SumSeq(Tail(xs))

RECURSIVE SumProdDev(_, _, _)
\* sum over k..1 of (n*s1[k] - sum(s1)) * (n*s2[k] - sum(s2)): the
\* deviations from the mean, all carrying the factor n = len
SumProdDev(s1, s2, k) ==
  IF k = 0 THEN 0
  ELSE (Len(s1) * s1[k] - SumSeq(s1)) * (Len(s2) * s2[k] - SumSeq(s2))
       + SumProdDev(s1, s2, k - 1)

Clamp(x, lo, hi) == IF x < lo THEN lo ELSE IF x > hi THEN hi ELSE x

Ok(x) == [ok |-> TRUE, error |-> "", value |-> x]
Err(kind) == [ok |-> FALSE, error |-> kind, value |-> 0]

\* mutant: the result is not clamped
pearson_correlation_unclamped(s1, s2) ==
  IF Len(s1) # Len(s2) THEN Err("ShapeMismatch")
  ELSE IF Len(s1) = 0 THEN Err("ComputeError")
  ELSE
    LET numerator == SumProdDev(s1, s2, Len(s1))
        denom1 == SumProdDev(s1, s1, Len(s1))
        denom2 == SumProdDev(s2, s2, Len(s1))
    IN IF denom1 = 0 \/ denom2 = 0 THEN Ok(0)
       ELSE Ok(MulDiv(numerator * 1000000, 100,
                      ISqrt(denom1 * 10000) * ISqrt(denom2 * 10000)))

pearson_correlation(s1, s2) ==
  IF Len(s1) # Len(s2) THEN Err("ShapeMismatch")
  ELSE IF Len(s1) = 0 THEN Err("ComputeError")
  ELSE
    LET numerator == SumProdDev(s1, s2, Len(s1))
        denom1 == SumProdDev(s1, s1, Len(s1))
        denom2 == SumProdDev(s2, s2, Len(s1))
    IN IF denom1 = 0 \/ denom2 = 0 THEN Ok(0)
       ELSE LET correlation ==
                  MulDiv(numerator * 1000000, 100,
                         ISqrt(denom1 * 10000) * ISqrt(denom2 * 10000))
            IN Ok(Clamp(correlation, -10000, 10000))

\* DataFrame::new(columns): the columns must have one length
SameLength(pd) == \A i, j \in 1..Len(pd) : Len(pd[i]) = Len(pd[j])

\* the first error met walking the cells in row-major order, or "" if none
FirstCellError(pd) ==
  LET n == Len(pd)
      bad == {c \in 1..(n * n) :
                LET i == ((c - 1) \div n) + 1
                    j == ((c - 1) % n) + 1
                IN i # j /\ ~pearson_correlation(pd[i], pd[j]).ok}
  IN IF bad = {} THEN ""
     ELSE LET c == CHOOSE x \in bad : \A y \in bad : x =< y
          IN pearson_correlation(pd[((c - 1) \div n) + 1],
                                 pd[((c - 1) % n) + 1]).error

calculate_correlation_matrix(pd) ==
  IF ~SameLength(pd) THEN Err("ShapeMismatch")
  ELSE IF FirstCellError(pd) # "" THEN Err(FirstCellError(pd))
  ELSE Ok([i \in 1..Len(pd) |->
             [j \in 1..Len(pd) |->
                IF i = j THEN 10000
                ELSE pearson_correlation(pd[i], pd[j]).value]])


(***************************************************************************)
(* compare_assets_performance: one simulation per asset, then a sort       *)
(***************************************************************************)
\* TradingEngine::new: `fgi.unwrap_or(50)`
NewFgi(fgi_opt) == IF fgi_opt = None THEN 50 ELSE fgi_opt[1]

NewEngine(prm) ==
  [current_cash |-> prm.initial_capital, held |-> 0, position |-> None,
   trade_history |-> << >>]

RECURSIVE RunLoop(_, _, _, _, _)
\* the loop of run_simulation from row i on; fault when a row panics
RunLoop(st, df, f, prm, i) ==
  IF i >= Height(df) THEN [fault |-> FALSE, st |-> st]
  ELSE IF GenerateSignal(df, f, i).fault THEN [fault |-> TRUE, st |-> st]
  ELSE RunLoop(RowStep(st, df, f, prm, i), df, f, prm, i + 1)

\* run_simulation on a fresh engine, as one function
run_simulation(df, f, prm) ==
  LET e0 == NewEngine(prm)
      st0 == [current_cash |-> e0.current_cash, held |-> e0.held,
              position |-> e0.position, trade_history |-> e0.trade_history,
              in_position |-> FALSE, waiting_for_better_entry |-> FALSE,
              last_sell_price |-> 0, consecutive_losses |-> 0]
      r == RunLoop(st0, df, f, prm, StartIdx(Height(df)))
  IN [fault |-> r.fault,
      engine |-> IF ~r.fault /\ r.st.in_position /\ IsSome(r.st.position)
                 THEN FinalSell(EngineOf(r.st), df, prm)
                 ELSE EngineOf(r.st)]

\* the body of the loop over assets_data
PortfolioSimulation(asset) ==
  LET prm == DefaultParams
      run == run_simulation(asset.frame, NewFgi(None), prm)
      s == GetSummary(run.engine, asset.frame, prm)
  IN [symbol |-> asset.symbol, roi |-> s.roi,
      final_value |-> s.final_portfolio_value, num_trades |-> s.num_trades]

RECURSIVE InsertByRoiFirst(_, _)
\* mutant: an equal roi goes in front (the sort is not stable)
InsertByRoiFirst(sorted, x) ==
  IF sorted = << >> THEN <<x>>
  ELSE IF Head(sorted).roi > x.roi
       THEN <<Head(sorted)>> \o InsertByRoiFirst(Tail(sorted), x)
       ELSE <<x>> \o sorted

RECURSIVE InsertByRoi(_, _)
\* sort_by(|a, b| b.roi.partial_cmp(&a.roi)) is a stable sort: x goes
\* behind every element whose roi is not smaller
InsertByRoi(sorted, x) ==
  IF sorted = << >> THEN <<x>>
  ELSE IF Head(sorted).roi >= x.roi
       THEN <<Head(sorted)>> \o InsertByRoi(Tail(sorted), x)
       ELSE <<x>> \o sorted

RECURSIVE SortByRoi(_)
SortByRoi(results) ==
  IF results = << >> THEN << >>
  ELSE InsertByRoi(SortByRoi(SubSeq(results, 1, Len(results) - 1)),
                   results[Len(results)])

\* panic when one of the simulations panics, else the sorted results
compare_assets_performance(assets) ==
  IF \E k \in 1..Len(assets) :
       run_simulation(assets[k].frame, NewFgi(None), DefaultParams).fault
  THEN [panic |-> TRUE, results |-> << >>]
  ELSE [panic |-> FALSE,
        results |-> SortByRoi([k \in 1..Len(assets) |->
                                 PortfolioSimulation(assets[k])])]

(***************************************************************************)
(* Inputs                                                                   *)
(***************************************************************************)
MaxRows == 4

\* spacing of the rows of a frame, in days: daily bars for the frames
\* that Indicators::calculate produces, sparse bars for the others so that
\* more than 14 days pass within a few rows
CalcIntervals == {1}
RawIntervals == {15}

\* sentiment values, one per tier of the scorer
FGIs == {10, 22, 30, 50, 70, 78, 90}
RawFGIs == {10, 50}

ParamsSet == {DefaultParams}

SeqsUpTo(S, n) == UNION {[1..k -> S] : k \in 1..n}

MkRow(d, price, ma5, ma25, ma50, ma111, macd, signal, rsi, lower_band,
      upper_band, vma20, atr14) ==
  [datetime |-> d, price |-> Num(price), high |-> Num(price),
   low |-> Num(price), open |-> Num(price),
   ma5 |-> ma5, ma25 |-> ma25, ma50 |-> ma50, ma365 |-> NullCell,
   ma111 |-> ma111, ma350 |-> NullCell,
   upper_band |-> upper_band, lower_band |-> lower_band,
   macd |-> macd, signal |-> signal, roc |-> NullCell, vma20 |-> vma20,
   atr14 |-> atr14, pi_cycle_top |-> NullCell, ath |-> Num(price),
   rsi |-> rsi]

\* Rows of a frame handed to TradingEngine::new directly: one row per
\* market situation the simulator distinguishes.
RowKinds == {"bull", "crash", "dip", "top", "peak", "flat", "nullrow", "both"}

RawRow(kind, d) ==
  CASE kind = "bull" ->
         MkRow(d, 10000, Num(9800), Num(9600), Num(9400), NullCell,
               Num(200), Num(100), Num(4500), Num(9000), Num(11500),
               Num(10000), Num(100))
    [] kind = "crash" ->
         MkRow(d, 7000, Num(8000), Num(9000), Num(9500), Num(9800),
               Num(-200), Num(-100), Num(5000), Num(6000), Num(12000),
               Num(8000), Num(100))
    [] kind = "dip" ->
         MkRow(d, 7500, Num(8500), Num(9000), Num(9500), Num(9800),
               Num(-100), Num(-200), Num(2000), Num(7500), Num(11000),
               Num(8000), Num(300))
    [] kind = "top" ->
         MkRow(d, 11000, Num(11200), Num(11400), Num(11000), Num(10000),
               Num(-100), Num(100), Num(6800), Num(9000), Num(13000),
               Num(10500), Num(100))
    [] kind = "peak" ->
         MkRow(d, 13000, Num(12500), Num(12000), Num(11000), Num(10000),
               Num(300), Num(200), Num(8500), Num(11000), Num(13000),
               Num(12000), Num(200))
    [] kind = "flat" ->
         MkRow(d, 10000, Num(10000), Num(10000), Num(10000), Num(10000),
               Num(0), Num(0), Num(5000), Num(9000), Num(11000),
               Num(10000), Num(100))
    [] kind = "nullrow" ->
         MkRow(d, 10000, NullCell, NullCell, NullCell, NullCell,
               Num(0), Num(0), NullCell, NullCell, NullCell,
               NullCell, NullCell)
    [] kind = "slip88" ->
         MkRow(d, 8800, Num(9200), Num(9500), Num(9700), Num(9800),
               Num(-100), Num(-200), Num(2000), Num(8800), Num(11000),
               Num(9000), Num(100))
    [] kind = "slip80" ->
         MkRow(d, 8000, Num(8500), Num(9000), Num(9500), Num(9800),
               Num(-100), Num(-200), Num(2000), Num(8000), Num(11000),
               Num(8500), Num(100))
    [] kind = "plunge" ->
         MkRow(d, 4000, Num(6000), Num(8000), Num(9000), Num(9500),
               Num(-100), Num(-200), Num(5000), Num(4000), Num(9000),
               Num(5000), Num(100))
    [] kind = "crest" ->
         MkRow(d, 11600, Num(11700), Num(11800), Num(11000), Num(10000),
               Num(100), Num(200), Num(8500), Num(10000), Num(11600),
               Num(11000), Num(100))
    [] kind = "both" ->
         MkRow(d, 10000, Num(10100), Num(10200), Num(10300), Num(10400),
               Num(-200), Num(-100), Num(2000), Num(10000), Num(10000),
               Num(9500), Num(100))

RawFrame(kinds, g) == [t \in 1..Len(kinds) |-> RawRow(kinds[t], (t - 1) * g)]

\* OHLCV inputs of Indicators::new
CalcPrices == {9700, 10000, 10300}
CalcVolumes == {0, 100}

DataPoints(prices, vol, g) ==
  [t \in 1..Len(prices) |->
     [datetime |-> (t - 1) * g, price |-> prices[t], high |-> prices[t],
      low |-> prices[t], open |-> prices[t], volume |-> vol]]

\* rolling_std over a single observation: 0 or null, by library version
Std1Cells == {NullCell, Num(0)}

(***************************************************************************)
(* State machine                                                            *)
(***************************************************************************)
\* the driver is not running
DriverIdle ==
  /\ today = 0
  /\ store = << >>
  /\ daily_report = FALSE
  /\ asset_i = 0
  /\ portfolio_signals = << >>
  /\ startup_result = << >>
  /\ report_runs = << >>
  /\ reports_sent = << >>
  /\ iterations = 0

\* Either a frame is handed to TradingEngine::new as is, or an OHLCV
\* series waits for Indicators::calculate (pc = "input").
Init ==
  /\ \/ /\ origin = "raw"
        /\ \E kinds \in SeqsUpTo(RowKinds, MaxRows), g \in RawIntervals :
             final_df = RawFrame(kinds, g)
        /\ historical = << >>
        /\ fgi \in RawFGIs
        /\ pc = "new"
     \/ /\ origin = "calculated"
        /\ \E prices \in SeqsUpTo(CalcPrices, MaxRows), vol \in CalcVolumes,
              g \in CalcIntervals :
             historical = DataPoints(prices, vol, g)
        /\ final_df = << >>
        /\ fgi \in FGIs
        /\ pc = "input"
  /\ params \in ParamsSet
  /\ current_cash = params.initial_capital
  /\ held = 0
  /\ trade_history = << >>
  /\ position = None
  /\ idx = 0
  /\ in_position = FALSE
  /\ waiting_for_better_entry = FALSE
  /\ last_sell_price = 0
  /\ consecutive_losses = 0
  /\ event = None
  /\ summary = None
  /\ price_data = << >>
  /\ corr_result = None
  /\ assets_data = << >>
  /\ performance = << >>
  /\ DriverIdle
  /\ signals = << >>

Engine == [current_cash |-> current_cash, held |-> held,
           position |-> position, trade_history |-> trade_history]

SimState ==
  [current_cash |-> current_cash, held |-> held, position |-> position,
   trade_history |-> trade_history, in_position |-> in_position,
   waiting_for_better_entry |-> waiting_for_better_entry,
   last_sell_price |-> last_sell_price,
   consecutive_losses |-> consecutive_losses]

\* Indicators::new(historical).calculate(), then TradingEngine::new
CalculateFrame ==
  /\ pc = "input"
  /\ \E one_obs \in Std1Cells : final_df' = Calculate(historical, one_obs)
  /\ pc' = "new"
  /\ UNCHANGED <<fgi, params, current_cash, held, trade_history, position,
                 idx, in_position, waiting_for_better_entry, last_sell_price,
                 consecutive_losses, event, summary, origin, historical,
                 price_data, corr_result, compareVars, driverVars, signals>>

\* run_simulation, up to the loop
RunSimulation ==
  /\ pc = "new"
  /\ pc' = "loop"
  /\ idx' = StartIdx(Height(final_df))
  /\ in_position' = FALSE
  /\ waiting_for_better_entry' = FALSE
  /\ last_sell_price' = 0
  /\ consecutive_losses' = 0
  /\ UNCHANGED <<final_df, fgi, params, current_cash, held, trade_history,
                 position, event, summary, origin, historical,
                 price_data, corr_result, compareVars, driverVars, signals>>

\* run_simulation, one iteration of the loop
RunRow ==
  /\ pc = "loop"
  /\ idx < Height(final_df)
  /\ IF GenerateSignal(final_df, fgi, idx).fault
     THEN /\ pc' = "panic"
          /\ UNCHANGED <<idx, current_cash, held, position, trade_history,
                         in_position, waiting_for_better_entry,
                         last_sell_price, consecutive_losses>>
     ELSE LET st == RowStep(SimState, final_df, fgi, params, idx)
          IN /\ pc' = "loop"
             /\ idx' = idx + 1
             /\ current_cash' = st.current_cash
             /\ held' = st.held
             /\ position' = st.position
             /\ trade_history' = st.trade_history
             /\ in_position' = st.in_position
             /\ waiting_for_better_entry' = st.waiting_for_better_entry
             /\ last_sell_price' = st.last_sell_price
             /\ consecutive_losses' = st.consecutive_losses
  /\ UNCHANGED <<final_df, fgi, params, event, summary, origin, historical,
                 price_data, corr_result, compareVars, driverVars, signals>>

\* run_simulation, after the loop
RunFinish ==
  /\ pc = "loop"
  /\ idx = Height(final_df)
  /\ LET e == IF in_position /\ IsSome(position)
              THEN FinalSell(Engine, final_df, params)
              ELSE Engine
     IN /\ current_cash' = e.current_cash
        /\ held' = e.held
        /\ position' = e.position
        /\ trade_history' = e.trade_history
  /\ pc' = "done"
  /\ UNCHANGED <<final_df, fgi, params, idx, in_position,
                 waiting_for_better_entry, last_sell_price,
                 consecutive_losses, event, summary, origin, historical,
                 price_data, corr_result, compareVars, driverVars, signals>>

\* poll_event, on a fresh engine or after a simulation
PollEvent ==
  /\ pc \in {"new", "done"}
  /\ event = None
  /\ IF GenerateSignal(final_df, fgi, Height(final_df) - 1).fault
     THEN pc' = "panic" /\ event' = event
     ELSE /\ event' = Some(PollEventOf(Engine, final_df, fgi, params))
          /\ pc' = IF pc = "new" THEN "polled" ELSE pc
  /\ UNCHANGED <<final_df, fgi, params, current_cash, held, trade_history,
                 position, idx, in_position, waiting_for_better_entry,
                 last_sell_price, consecutive_losses, summary, origin, historical,
                 price_data, corr_result, compareVars, driverVars, signals>>

\* get_summary after a simulation
Summarize ==
  /\ pc = "done"
  /\ summary = None
  /\ summary' = Some(GetSummary(Engine, final_df, params))
  /\ UNCHANGED <<final_df, fgi, params, current_cash, held, trade_history,
                 position, pc, idx, in_position, waiting_for_better_entry,
                 last_sell_price, consecutive_losses, event, origin, historical,
                 price_data, corr_result, compareVars, driverVars, signals>>

Next == CalculateFrame \/ RunSimulation \/ RunRow \/ RunFinish \/ PollEvent \/ Summarize

Spec == Init /\ [][Next]_vars


(***************************************************************************)
(* The simulator on longer frames: a position that sees several DCA buys,  *)
(* is closed and reopened, and a collapse right after the entry.           *)
(***************************************************************************)
LongKinds ==
  {<<"bull", "slip88", "slip80", "slip80", "top", "bull", "dip">>,
   <<"bull", "slip88", "slip80", "slip80", "slip80", "dip">>,
   <<"bull", "plunge", "flat">>,
   <<"bull", "peak", "peak", "peak", "top">>,
   <<"bull", "flat", "crash", "bull", "dip">>,
   <<"bull", "crash", "bull", "crash", "bull", "dip">>,
   <<"bull", "crest", "crest", "peak">>,
   <<"bull", "dip", "both", "bull", "dip">>,
   <<"bull", "top", "peak", "dip", "top">>,
   <<"bull", "both", "top", "bull">>}

InitLong ==
  /\ origin = "raw"
  /\ \E kinds \in LongKinds, g \in RawIntervals :
       final_df = RawFrame(kinds, g)
  /\ historical = << >>
  /\ fgi \in FGIs
  /\ pc = "new"
  /\ params \in ParamsSet
  /\ current_cash = params.initial_capital
  /\ held = 0
  /\ trade_history = << >>
  /\ position = None
  /\ idx = 0
  /\ in_position = FALSE
  /\ waiting_for_better_entry = FALSE
  /\ last_sell_price = 0
  /\ consecutive_losses = 0
  /\ event = None
  /\ summary = None
  /\ price_data = << >>
  /\ corr_result = None
  /\ assets_data = << >>
  /\ performance = << >>
  /\ DriverIdle
  /\ signals = << >>

NextLong == RunSimulation \/ RunRow \/ RunFinish \/ PollEvent \/ Summarize

SpecLong == InitLong /\ [][NextLong]_vars


(***************************************************************************)
(* The simulator under Params other than the default: the fraction of     *)
(* cash deployed at entry varies, up to and beyond the whole of the cash.  *)
(***************************************************************************)
InvestFractions == {350, 600, 1000, 1200}

FractionKinds ==
  {<<"bull", "crash", "bull", "crash", "bull", "dip">>,
   <<"dip", "top", "bull">>,
   <<"bull", "top", "dip", "peak">>}

InitFractions ==
  /\ origin = "raw"
  /\ \E kinds \in FractionKinds, g \in RawIntervals :
       final_df = RawFrame(kinds, g)
  /\ historical = << >>
  /\ fgi \in FGIs
  /\ pc = "new"
  /\ \E frac \in InvestFractions :
       params = [DefaultParams EXCEPT !.initial_investment_fraction = frac]
  /\ current_cash = params.initial_capital
  /\ held = 0
  /\ trade_history = << >>
  /\ position = None
  /\ idx = 0
  /\ in_position = FALSE
  /\ waiting_for_better_entry = FALSE
  /\ last_sell_price = 0
  /\ consecutive_losses = 0
  /\ event = None
  /\ summary = None
  /\ price_data = << >>
  /\ corr_result = None
  /\ assets_data = << >>
  /\ performance = << >>
  /\ DriverIdle
  /\ signals = << >>

NextFractions == RunSimulation \/ RunRow \/ RunFinish \/ PollEvent \/ Summarize

SpecFractions == InitFractions /\ [][NextFractions]_vars


(***************************************************************************)
(* dca_buy on its own: an engine holding a position (or none), some cash,  *)
(* and the row the call is made on.                                        *)
(***************************************************************************)
DcaKinds == {"plunge", "crash", "dip", "slip80", "slip88", "flat", "peak"}

\* cash on both sides of investment = 100.00 for each investment_scale
DcaCash == {0, 9999, 10000, 11111, 11112, 13333, 13334, 16666, 16667,
            500000, 1000000}

DcaPositions ==
  {None} \cup
  {Some([avg_price |-> a, amount |-> m, investment |-> (a * m) \div 100,
         entry_time |-> 0]) : a \in {8000, 10000}, m \in {100, 5000}}

InitDca ==
  /\ origin = "raw"
  /\ \E kind \in DcaKinds : final_df = <<RawRow(kind, 15)>>
  /\ historical = << >>
  /\ fgi = 50
  /\ pc = "dca"
  /\ params \in ParamsSet
  /\ current_cash \in DcaCash
  /\ position \in DcaPositions
  /\ held = IF IsSome(position) THEN position[1].amount ELSE 0
  /\ trade_history =
       IF IsSome(position)
       THEN <<[trade_type |-> "Buy", datetime |-> 0,
               price |-> position[1].avg_price,
               amount |-> position[1].amount]>>
       ELSE << >>
  /\ idx = 0
  /\ in_position = IsSome(position)
  /\ waiting_for_better_entry = FALSE
  /\ last_sell_price = 0
  /\ consecutive_losses = 0
  /\ event = None
  /\ summary = None
  /\ price_data = << >>
  /\ corr_result = None
  /\ assets_data = << >>
  /\ performance = << >>
  /\ DriverIdle
  /\ signals = << >>

\* self.dca_buy(idx)
DcaBuyCall ==
  /\ pc = "dca"
  /\ pc' = "dca_done"
  /\ LET e == DcaBuy(Engine, Row(final_df, idx), params)
     IN /\ current_cash' = e.current_cash
        /\ held' = e.held
        /\ position' = e.position
        /\ trade_history' = e.trade_history
  /\ UNCHANGED <<final_df, fgi, params, idx, in_position,
                 waiting_for_better_entry, last_sell_price,
                 consecutive_losses, event, summary, origin, historical,
                 price_data, corr_result, compareVars, driverVars, signals>>

NextDca == DcaBuyCall

SpecDca == InitDca /\ [][NextDca]_vars


(***************************************************************************)
(* The scorer on its own: generate_signal on one row whose cells lie on    *)
(* either side of every bar of the score                                   *)
(***************************************************************************)
ScorePrice == 10000
ScoreMa5 == {Num(9900), Num(10100)}
ScoreMa25 == {Num(9800), Num(10000), Num(10200)}
ScoreMa50 == {Num(9700), Num(10300)}
ScoreMa111 == {NullCell, Num(9750)}
ScoreMacd == {Num(-100), Num(100)}
ScoreSignal == {Num(-200), Num(0), Num(200)}
ScoreRsi == {NullCell, Num(2500), Num(3500), Num(6700), Num(7500)}
ScoreLowerBand == {NullCell, Num(9600), Num(9850)}
ScoreUpperBand == {NullCell, Num(10150), Num(10400)}
ScoreVma20 == {NullCell, Num(8900), Num(9500)}
ScoreAtr14 == {NullCell, Num(100)}

InitScore ==
  /\ \E ma5 \in ScoreMa5, ma25 \in ScoreMa25, ma50 \in ScoreMa50,
        ma111 \in ScoreMa111, macd \in ScoreMacd, sg \in ScoreSignal,
        rsi \in ScoreRsi, lower_band \in ScoreLowerBand,
        upper_band \in ScoreUpperBand, vma20 \in ScoreVma20,
        atr14 \in ScoreAtr14 :
       final_df = <<MkRow(0, ScorePrice, ma5, ma25, ma50, ma111, macd, sg,
                          rsi, lower_band, upper_band, vma20, atr14)>>
  /\ fgi \in FGIs
  /\ signals = None
  /\ pc = "score"
  /\ origin = "raw"
  /\ historical = << >>
  /\ params = DefaultParams
  /\ current_cash = params.initial_capital
  /\ held = 0
  /\ trade_history = << >>
  /\ position = None
  /\ idx = 0
  /\ in_position = FALSE
  /\ waiting_for_better_entry = FALSE
  /\ last_sell_price = 0
  /\ consecutive_losses = 0
  /\ event = None
  /\ summary = None
  /\ price_data = << >>
  /\ corr_result = None
  /\ assets_data = << >>
  /\ performance = << >>
  /\ DriverIdle

\* generate_signal(idx) on the engine as constructed
GenerateSignalCall ==
  /\ pc = "score"
  /\ signals = None
  /\ signals' = Some(GenerateSignal(final_df, fgi, idx))
  /\ UNCHANGED <<engineVars, pc, origin, compareVars, driverVars>>

NextScore == GenerateSignalCall

SpecScore == InitScore /\ [][NextScore]_vars


(***************************************************************************)
(* Analytics on its own: calculate_correlation_matrix over price vectors   *)
(***************************************************************************)
MaxAssets == 2
MaxLen == 3
CorrPrices == {1, 2, 3}

PriceVectors == {<< >>} \cup SeqsUpTo(CorrPrices, MaxLen)

InitCorr ==
  /\ price_data \in SeqsUpTo(PriceVectors, MaxAssets)
  /\ corr_result = None
  /\ pc = "analytics"
  /\ origin = "analytics"
  /\ final_df = << >>
  /\ historical = << >>
  /\ fgi = 50
  /\ params = DefaultParams
  /\ current_cash = params.initial_capital
  /\ held = 0
  /\ trade_history = << >>
  /\ position = None
  /\ idx = 0
  /\ in_position = FALSE
  /\ waiting_for_better_entry = FALSE
  /\ last_sell_price = 0
  /\ consecutive_losses = 0
  /\ event = None
  /\ summary = None
  /\ assets_data = << >>
  /\ performance = << >>
  /\ DriverIdle
  /\ signals = << >>

CalculateCorrelationMatrix ==
  /\ pc = "analytics"
  /\ corr_result = None
  /\ corr_result' = Some(calculate_correlation_matrix(price_data))
  /\ UNCHANGED <<final_df, fgi, params, current_cash, held, trade_history,
                 position, pc, idx, in_position, waiting_for_better_entry,
                 last_sell_price, consecutive_losses, event, summary, origin,
                 historical, price_data, compareVars, driverVars, signals>>

NextCorr == CalculateCorrelationMatrix

SpecCorr == InitCorr /\ [][NextCorr]_vars

(***************************************************************************)
(* Analytics on its own: compare_assets_performance over K frames          *)
(***************************************************************************)
\* the frames of the assets, as sequences of row kinds
CmpKinds ==
  {<<"bull">>, <<"flat">>, <<"bull", "top">>, <<"bull", "peak">>,
   <<"bull", "crash">>, <<"bull", "flat">>, <<"nullrow">>,
   <<"bull", "dip", "peak">>}

\* the symbol of an asset is its place in the input
AssetsOf(kinds) ==
  [k \in 1..Len(kinds) |->
     [symbol |-> k, frame |-> RawFrame(kinds[k], 15)]]

InitCompare ==
  /\ \E kinds \in SeqsUpTo(CmpKinds, MaxAssets) : assets_data = AssetsOf(kinds)
  /\ performance = None
  /\ pc = "compare"
  /\ origin = "compare"
  /\ final_df = << >>
  /\ historical = << >>
  /\ fgi = 0
  /\ params = [DefaultParams EXCEPT !.initial_capital = 0]
  /\ current_cash = 0
  /\ held = 0
  /\ trade_history = << >>
  /\ position = None
  /\ idx = 0
  /\ in_position = FALSE
  /\ waiting_for_better_entry = FALSE
  /\ last_sell_price = 0
  /\ consecutive_losses = 0
  /\ event = None
  /\ summary = None
  /\ price_data = << >>
  /\ corr_result = None
  /\ DriverIdle
  /\ signals = << >>

\* compare_assets_performance; fgi and params are those of the engines
\* it constructs
CompareAssetsPerformance ==
  /\ pc = "compare"
  /\ performance = None
  /\ performance' = Some(compare_assets_performance(assets_data))
  /\ fgi' = NewFgi(None)
  /\ params' = DefaultParams
  /\ UNCHANGED <<final_df, current_cash, held, trade_history, position, pc,
                 idx, in_position, waiting_for_better_entry, last_sell_price,
                 consecutive_losses, event, summary, origin, historical,
                 price_data, corr_result, assets_data, driverVars, signals>>

NextCompare == CompareAssetsPerformance

SpecCompare == InitCompare /\ [][NextCompare]_vars

(***************************************************************************)
(* The driver (apps/oversight/src/main.rs) and the report status it keeps  *)
(* in the key/value store (crates/seyeon_redis).  A date is a day number;  *)
(* day 0 stands for "2000-01-01".  Every external call succeeds or fails   *)
(* as the environment chooses.                                              *)
(***************************************************************************)
MaxPortfolio == 2
MaxIter == 2

\* the symbols portfolio_fetcher returns
Portfolio == [k \in 1..MaxPortfolio |-> k]

\* ReportStatus::default
DefaultReportStatus == [last_report_date |-> 0, report_sent_today |-> FALSE]

\* set_report_status
set_report_status(st, status, write_ok) ==
  IF write_ok THEN [ok |-> TRUE, store |-> Some(status)]
  ELSE [ok |-> FALSE, store |-> st]

\* get_report_status: an absent key is created with the default status
get_report_status(st, read_ok, write_ok) ==
  IF ~read_ok THEN [ok |-> FALSE, status |-> DefaultReportStatus, store |-> st]
  ELSE IF IsSome(st) THEN [ok |-> TRUE, status |-> st[1], store |-> st]
  ELSE LET w == set_report_status(st, DefaultReportStatus, write_ok)
       IN [ok |-> w.ok, status |-> DefaultReportStatus, store |-> w.store]

\* update_report_status
update_report_status(st, date, sent, read_ok, init_ok, write_ok) ==
  LET g == get_report_status(st, read_ok, init_ok)
  IN IF ~g.ok THEN [ok |-> FALSE, store |-> g.store]
     ELSE set_report_status(g.store,
                            [g.status EXCEPT !.last_report_date = date,
                                             !.report_sent_today = sent],
                            write_ok)

\* main: `let daily_report = if .. != current_date_str { true } else { .. }`
DailyReport(report_status, current_date) ==
  IF report_status.last_report_date # current_date THEN TRUE
  ELSE ~report_status.report_sent_today

\* what happens to one asset in the loop of startup:
\*   ok          history fetched
\*   cached      rate limit, cache file read and parsed
\*   no_cache    rate limit, no cache file
\*   bad_cache   rate limit, cache file unreadable or unparsable
\*   fetch_err   any other fetch error
\*   calc_err    Indicators::calculate fails
\*   status_err  set_status fails
AssetOutcomes ==
  {"ok", "cached", "no_cache", "bad_cache", "fetch_err", "calc_err",
   "status_err"}

\* the outcomes after which the loop body reaches its end
AssetCompletes(outcome) == outcome \in {"ok", "cached"}

InitDriver ==
  /\ today = 1
  /\ store \in {None, Some(DefaultReportStatus),
                 Some([last_report_date |-> 1, report_sent_today |-> TRUE])}
  /\ daily_report = FALSE
  /\ asset_i = 0
  /\ portfolio_signals = << >>
  /\ startup_result = None
  /\ report_runs = << >>
  /\ reports_sent = << >>
  /\ iterations = 0
  /\ pc = "check"
  /\ origin = "driver"
  /\ final_df = << >>
  /\ historical = << >>
  /\ fgi = 50
  /\ params = DefaultParams
  /\ current_cash = params.initial_capital
  /\ held = 0
  /\ trade_history = << >>
  /\ position = None
  /\ idx = 0
  /\ in_position = FALSE
  /\ waiting_for_better_entry = FALSE
  /\ last_sell_price = 0
  /\ consecutive_losses = 0
  /\ event = None
  /\ summary = None
  /\ price_data = << >>
  /\ corr_result = None
  /\ assets_data = << >>
  /\ performance = None
  /\ signals = << >>

\* main, top of the loop: read the status, decide daily_report, call startup
LoopCheck ==
  /\ pc = "check"
  /\ \E read_ok, write_ok \in BOOLEAN :
       LET g == get_report_status(store, read_ok, write_ok)
           report_status == IF g.ok THEN g.status ELSE DefaultReportStatus
           dr == DailyReport(report_status, today)
       IN /\ store' = g.store
          /\ daily_report' = dr
          /\ report_runs' = IF dr THEN Append(report_runs, today)
                            ELSE report_runs
  /\ asset_i' = 0
  /\ portfolio_signals' = << >>
  /\ startup_result' = None
  /\ pc' = "startup"
  /\ UNCHANGED <<engineVars, origin, compareVars, signals, today, reports_sent,
                 iterations>>

\* startup, before the loop: EmailConfig::new and portfolio_fetcher
StartupBegin ==
  /\ pc = "startup"
  /\ \E config_ok \in BOOLEAN :
       IF config_ok
       THEN pc' = "assets" /\ startup_result' = startup_result
       ELSE pc' = "update" /\ startup_result' = Some("config")
  /\ UNCHANGED <<engineVars, origin, compareVars, signals, today, store, daily_report,
                 asset_i, portfolio_signals, report_runs, reports_sent,
                 iterations>>

\* startup, one asset of the loop: every failure is `return Err(..)` or `?`
StartupAsset ==
  /\ pc = "assets"
  /\ asset_i < Len(Portfolio)
  /\ \E outcome \in AssetOutcomes :
       IF AssetCompletes(outcome)
       THEN /\ portfolio_signals' =
                 Append(portfolio_signals, Portfolio[asset_i + 1])
            /\ asset_i' = asset_i + 1
            /\ pc' = "assets"
            /\ startup_result' = startup_result
       ELSE /\ startup_result' = Some("asset")
            /\ pc' = "update"
            /\ UNCHANGED <<portfolio_signals, asset_i>>
  /\ UNCHANGED <<engineVars, origin, compareVars, signals, today, store, daily_report,
                 report_runs, reports_sent, iterations>>

\* startup, after the loop: the daily report, then Ok(())
StartupReport ==
  /\ pc = "assets"
  /\ asset_i = Len(Portfolio)
  /\ reports_sent' =
       IF daily_report
       THEN Append(reports_sent,
                   [date |-> today, signals |-> portfolio_signals,
                    run |-> Len(report_runs)])
       ELSE reports_sent
  /\ startup_result' = Some("ok")
  /\ pc' = "update"
  /\ UNCHANGED <<engineVars, origin, compareVars, signals, today, store, daily_report,
                 asset_i, portfolio_signals, report_runs, iterations>>

\* main, after startup: `if daily_report { update_report_status(..) }`
LoopUpdate ==
  /\ pc = "update"
  /\ IF daily_report
     THEN \E read_ok, init_ok, write_ok \in BOOLEAN :
            store' = update_report_status(store, today, TRUE, read_ok,
                                          init_ok, write_ok).store
     ELSE store' = store
  /\ pc' = "sleep"
  /\ UNCHANGED <<engineVars, origin, compareVars, signals, today, daily_report,
                 asset_i, portfolio_signals, startup_result, report_runs,
                 reports_sent, iterations>>

\* main, sleep(600 s): the date is the same or the next one afterwards
Sleep ==
  /\ pc = "sleep"
  /\ iterations < MaxIter
  /\ iterations' = iterations + 1
  /\ today' \in {today, today + 1}
  /\ pc' = "check"
  /\ UNCHANGED <<engineVars, origin, compareVars, signals, store, daily_report,
                 asset_i, portfolio_signals, startup_result, report_runs,
                 reports_sent>>

NextDriver ==
  LoopCheck \/ StartupBegin \/ StartupAsset \/ StartupReport \/ LoopUpdate
    \/ Sleep

SpecDriver == InitDriver /\ [][NextDriver]_vars

(***************************************************************************)
(* Properties                                                               *)
(***************************************************************************)
Simulating == pc \in {"loop", "done"}

LastTrade == trade_history[Len(trade_history)]

ConstantPrice(df) == \A t \in 1..Len(df) : df[t].price = df[1].price

\* C1: at every row boundary of run_simulation and after it returns, held
\* equals position.amount when a position exists and 0 otherwise.
C1_HeldMatchesPosition ==
  Simulating =>
    /\ IsSome(position) => held = position[1].amount
    /\ ~IsSome(position) => held = 0

\* C2: with the default Params, current_cash >= 0 and held >= 0 after
\* every operation of a run.
C2_NonNegative ==
  params = DefaultParams => current_cash >= 0 /\ held >= 0

C2_Witness ==
  /\ pc = "done"
  /\ params = DefaultParams
  /\ CountTrades(trade_history, "DcaBuy") >= 1
  /\ CountTrades(trade_history, "PartialSell") >= 1
  /\ LastTrade.trade_type = "FinalSell"
  /\ current_cash > 0

\* C3: when run_simulation returns no position remains open: position is
\* None, held is 0, and the last trade, if any, closed the position.
C3_FlatOnReturn ==
  pc = "done" =>
    /\ position = None
    /\ held = 0
    /\ trade_history # << >> =>
         LastTrade.trade_type \in {"FullSell", "FinalSell"}

\* C4: the trades of a run have strictly increasing datetime.
C4_StrictDatetime ==
  Simulating =>
    \A i, j \in 1..Len(trade_history) :
      i < j => trade_history[i].datetime < trade_history[j].datetime

\* C4 as amended: datetimes never decrease, and two trades share a
\* datetime only when the later one is the terminal FinalSell, which is
\* stamped with the last row.
C4_Amended ==
  Simulating =>
    \A i, j \in 1..Len(trade_history) :
      i < j =>
        /\ trade_history[i].datetime =< trade_history[j].datetime
        /\ trade_history[i].datetime = trade_history[j].datetime =>
             /\ j = Len(trade_history)
             /\ j = i + 1
             /\ trade_history[j].trade_type = "FinalSell"

C4_Witness ==
  /\ pc = "done"
  /\ Len(trade_history) >= 3
  /\ LastTrade.trade_type = "FinalSell"
  /\ LastTrade.datetime = trade_history[Len(trade_history) - 1].datetime

\* C5: on a constant-price frame the summary's roi (hundredths of a
\* percent) is at least -100 * generic_fee * K for K trades, and with
\* sentiment 50 the poll on the frame Indicators::calculate yields is Hold.
C5_ConstantPrice ==
  /\ (pc = "done" /\ IsSome(summary) /\ ConstantPrice(final_df)) =>
       summary[1].roi >= -(10 * params.generic_fee * summary[1].num_trades)
  /\ (origin = "calculated" /\ IsSome(event) /\ ConstantPrice(final_df)
        /\ fgi = 50) =>
       event[1].signal = "Hold"

C5_Witness ==
  /\ origin = "calculated"
  /\ pc = "done"
  /\ Len(final_df) = MaxRows
  /\ ConstantPrice(final_df)
  /\ fgi = 50
  /\ IsSome(summary)
  /\ IsSome(event)

MAWindows == {5, 25, 50, 111, 350, 365}

MACell(r, w) ==
  CASE w = 5 -> r.ma5 [] w = 25 -> r.ma25 [] w = 50 -> r.ma50
    [] w = 111 -> r.ma111 [] w = 350 -> r.ma350 [] w = 365 -> r.ma365

\* C7: Indicators::calculate returns one row per DataPoint in input order,
\* and ma_W is null in rows 0..W-2 and non-null from row W-1 on.
C7_RowsAndWarmup ==
  (origin = "calculated" /\ pc # "input") =>
    /\ Len(final_df) = Len(historical)
    /\ \A t \in 1..Len(final_df) :
         /\ final_df[t].datetime = historical[t].datetime
         /\ final_df[t].price = Num(historical[t].price)
         /\ \A w \in MAWindows : IsNull(MACell(final_df[t], w)) <=> t < w

\* C8: poll_event ranks DcaBuy, then DcaSell, then Buy (buy_now and not
\* sell_now), then Sell (sell_now and not buy_now), else Hold.
C8_PollPriority ==
  IsSome(event) =>
    LET i == Height(final_df) - 1
        sig == GenerateSignal(final_df, fgi, i)
        dca_buy == CheckDcaBuyOpportunity(position, current_cash,
                     trade_history, final_df, fgi, params, i)
        dca_sell == CheckDcaSellOpportunity(position, trade_history,
                      final_df, fgi, params, i)
        s == event[1].signal
    IN /\ dca_buy => s = "DcaBuy"
       /\ (~dca_buy /\ dca_sell) => s = "DcaSell"
       /\ (~dca_buy /\ ~dca_sell /\ sig.buy /\ ~sig.sell) => s = "Buy"
       /\ (~dca_buy /\ ~dca_sell /\ sig.sell /\ ~sig.buy) => s = "Sell"
       /\ (~dca_buy /\ ~dca_sell /\ sig.buy = sig.sell) => s = "Hold"

C8_Witness ==
  /\ IsSome(event)
  /\ event[1].signal = "Hold"
  /\ GenerateSignal(final_df, fgi, Height(final_df) - 1).buy
  /\ GenerateSignal(final_df, fgi, Height(final_df) - 1).sell


ZeroVariance(s) == Len(s) >= 1 /\ \A k \in 1..Len(s) : s[k] = s[1]

CorrOk == IsSome(corr_result) /\ corr_result[1].ok

Cell(i, j) == corr_result[1].value[i][j]

\* C9: the matrix of K equal-length vectors is K x K, symmetric, 1.0 on
\* the diagonal, within [-1, 1], and a cell is 0 when either of its series
\* has zero variance.
C9_Matrix ==
  CorrOk =>
    LET K == Len(price_data)
    IN /\ Len(corr_result[1].value) = K
       /\ \A i, j \in 1..K :
            /\ Len(corr_result[1].value[i]) = K
            /\ Cell(i, j) = Cell(j, i)
            /\ Cell(i, i) = 10000
            /\ Cell(i, j) >= -10000 /\ Cell(i, j) =< 10000
            /\ (ZeroVariance(price_data[i]) \/ ZeroVariance(price_data[j]))
                 => Cell(i, j) = 0

\* C9 as amended: the zero-variance rule holds off the diagonal only.
C9_Amended ==
  CorrOk =>
    LET K == Len(price_data)
    IN /\ Len(corr_result[1].value) = K
       /\ \A i, j \in 1..K :
            /\ Len(corr_result[1].value[i]) = K
            /\ Cell(i, j) = Cell(j, i)
            /\ Cell(i, i) = 10000
            /\ Cell(i, j) >= -10000 /\ Cell(i, j) =< 10000
            /\ (i # j /\ (ZeroVariance(price_data[i])
                            \/ ZeroVariance(price_data[j])))
                 => Cell(i, j) = 0

C9_Witness ==
  /\ CorrOk
  /\ Len(price_data) = MaxAssets
  /\ Len(price_data[1]) = MaxLen
  /\ ~ZeroVariance(price_data[1])
  /\ ZeroVariance(price_data[2])
  /\ Cell(1, 2) = 0

\* C10: with empty price series and K >= 1 the call returns ComputeError.
C10_EmptyIsError ==
  (IsSome(corr_result) /\ Len(price_data) >= 1
     /\ \A i \in 1..Len(price_data) : price_data[i] = << >>) =>
    ~corr_result[1].ok /\ corr_result[1].error = "ComputeError"


\* C11: compare_assets_performance returns one result per input asset, a
\* permutation of the input symbols, ordered by roi descending, two equal
\* rois keeping their input order; the engines run with Params::default()
\* and sentiment 50.
Results == performance[1].results

C11_Compare ==
  (IsSome(performance) /\ ~performance[1].panic) =>
    /\ Len(Results) = Len(assets_data)
    /\ \A k \in 1..Len(assets_data) :
         Cardinality({i \in 1..Len(Results) :
                        Results[i].symbol = assets_data[k].symbol}) = 1
    /\ \A i, j \in 1..Len(Results) :
         i < j =>
           /\ Results[i].roi >= Results[j].roi
           /\ Results[i].roi = Results[j].roi =>
                Results[i].symbol < Results[j].symbol
    /\ fgi = 50
    /\ params = DefaultParams

\* two different frames with the same roi, returned in input order
C11_Witness ==
  /\ IsSome(performance)
  /\ ~performance[1].panic
  /\ \E i \in 1..(Len(Results) - 1) :
       /\ Results[i].roi = Results[i + 1].roi
       /\ Results[i].roi # 0
       /\ assets_data[Results[i].symbol].frame
            # assets_data[Results[i + 1].symbol].frame

\* C12: in the per-asset loop of startup a failure on one asset neither
\* stops the processing of the remaining assets nor prevents the daily
\* report: when startup returns, every asset was visited and, with
\* daily_report set, the report of this run was generated.
C12_AssetFailureIsolated ==
  (pc = "update" /\ startup_result # Some("config")) =>
    /\ asset_i = Len(Portfolio)
    /\ daily_report =>
         /\ reports_sent # << >>
         /\ reports_sent[Len(reports_sent)].run = Len(report_runs)

\* C13: the daily report is run at most once per calendar date, and
\* startup runs with daily_report = true only when the stored
\* last_report_date differs from today or report_sent_today is false.
C13_OncePerDate ==
  /\ \A i, j \in 1..Len(report_runs) :
       i < j => report_runs[i] # report_runs[j]
  /\ (pc \in {"startup", "assets"} /\ daily_report) =>
       \/ store = None
       \/ store[1].last_report_date # today
       \/ ~store[1].report_sent_today

(***************************************************************************)
(* The row run_simulation is about to evaluate, and the state of the loop  *)
(* after the chain of step 3 on that row                                   *)
(***************************************************************************)
AtRow ==
  /\ pc = "loop"
  /\ idx < Height(final_df)
  /\ ~GenerateSignal(final_df, fgi, idx).fault

CurRow == Row(final_df, idx)

IsDcaBuy ==
  CheckDcaBuyOpportunity(position, current_cash, trade_history, final_df,
                         fgi, params, idx)

IsDcaSell ==
  CheckDcaSellOpportunity(position, trade_history, final_df, fgi, params, idx)

AfterStep3 ==
  ManageStep(SimState, CurRow, params, IsDcaBuy, IsDcaSell,
             GenerateSignal(final_df, fgi, idx).sell)

\* one of the three branches of step 3 is taken on the row
Step3Taken ==
  \/ IsDcaBuy
  \/ IsDcaSell
  \/ /\ GenerateSignal(final_df, fgi, idx).sell
     /\ IsSome(position)
     /\ CurRow.price.v > position[1].avg_price

\* the step that evaluates the row
RowTaken == AtRow /\ pc' = "loop" /\ idx' = idx + 1

\* C14: on a row where a position is held, price < 0.8 * avg_price, more
\* than 14 days have passed since entry_time and rsi > 40, the position is
\* liquidated on that row: a FullSell is appended, position becomes None,
\* held becomes 0 and consecutive_losses grows by 1.
C14_LossStopLiquidates ==
  [][(RowTaken /\ in_position /\ LossStopDue(AfterStep3, CurRow)) =>
       /\ position' = None
       /\ held' = 0
       /\ trade_history' # << >>
       /\ trade_history'[Len(trade_history')].trade_type = "FullSell"
       /\ trade_history'[Len(trade_history')].datetime = CurRow.datetime
       /\ consecutive_losses' = AfterStep3.consecutive_losses + 1]_vars

\* C15: on a row where a branch of step 3 is taken, the loss stop changes
\* neither consecutive_losses nor the in-position state.
C15_Step3SkipsLossStop ==
  [][(RowTaken /\ in_position /\ Step3Taken) =>
       /\ consecutive_losses' = AfterStep3.consecutive_losses
       /\ in_position' = AfterStep3.in_position]_vars

\* C16: final_sell liquidates the whole position at
\* max(price of the last row, avg_price): the FinalSell trade records that
\* price and the position's amount, cash grows by
\* amount * sell_price * (1 - generic_fee) (to one hundredth, the
\* rounding of the fixed-point division), and the price is never below
\* avg_price.
C16_FinalSell ==
  [][(pc = "loop" /\ pc' = "done" /\ in_position /\ IsSome(position)) =>
       LET pos == position[1]
           last == Row(final_df, Height(final_df) - 1).price.v
           sell_price == IF last > pos.avg_price THEN last ELSE pos.avg_price
           t == trade_history'[Len(trade_history')]
           gross == (pos.amount * sell_price) \div 100
           net == MulDiv(gross, 1000 - params.generic_fee, 1000)
       IN /\ Len(trade_history') = Len(trade_history) + 1
          /\ t.trade_type = "FinalSell"
          /\ t.price = sell_price
          /\ t.price >= pos.avg_price
          /\ t.amount = pos.amount
          /\ Abs(current_cash' - current_cash - net) =< 1
          /\ position' = None]_vars

\* a terminal sale marked at avg_price, above the last price
C16_Witness ==
  /\ pc = "done"
  /\ trade_history # << >>
  /\ LastTrade.trade_type = "FinalSell"
  /\ LastTrade.price > Row(final_df, Height(final_df) - 1).price.v

(***************************************************************************)
(* The score tables as the claim states them, over the cells of a row with *)
(* the read-time fallbacks; a cell here is a number or null.               *)
(***************************************************************************)
Val(c, fallback) == IF IsNull(c) THEN fallback ELSE c.v

RECURSIVE Points(_)
\* the sum of the points of the table lines whose condition holds
Points(table) ==
  IF table = << >> THEN 0
  ELSE (IF Head(table)[1] THEN Head(table)[2] ELSE 0) + Points(Tail(table))

\* the first line of a tier list whose condition holds gives the points
Tier(lines) ==
  IF \E k \in 1..Len(lines) : lines[k][1]
  THEN lines[CHOOSE k \in 1..Len(lines) :
               lines[k][1] /\ \A j \in 1..(k - 1) : ~lines[j][1]][2]
  ELSE 0

TableBuyScore(r, f) ==
  LET price == r.price.v
      rsi == Val(r.rsi, 5000)
      lower_band == Val(r.lower_band, (price * 9) \div 10)
      vma20 == Val(r.vma20, price)
  IN Points(<< <<price > r.ma5.v, 5>>,
               <<price > r.ma25.v, 10>>,
               <<r.ma5.v > r.ma25.v, 15>>,
               <<r.macd.v > r.signal.v, 15>>,
               <<r.macd.v > 0, 10>>,
               <<10 * vma20 > 9 * price, 10>> >>)
     + Tier(<< <<rsi < 3000, 20>>, <<rsi < 4000, 10>> >>)
     + Tier(<< <<100 * price =< 102 * lower_band, 15>>,
               <<100 * price =< 105 * lower_band, 10>> >>)
     + Tier(<< <<f < 25, 15>>, <<f < 40, 10>>, <<f > 80, -15>>,
               <<f > 65, -10>> >>)

TableSellScore(r, f) ==
  LET price == r.price.v
      rsi == Val(r.rsi, 5000)
      upper_band == Val(r.upper_band, (price * 11) \div 10)
      vma20 == Val(r.vma20, price)
  IN Points(<< <<price < r.ma5.v, 5>>,
               <<price < r.ma25.v, 10>>,
               <<r.ma5.v < r.ma25.v, 15>>,
               <<r.macd.v < r.signal.v, 15>>,
               <<r.macd.v < 0, 10>>,
               <<vma20 < price, 10>> >>)
     + Tier(<< <<rsi > 7000, 20>>, <<rsi > 6500, 10>> >>)
     + Tier(<< <<100 * price >= 98 * upper_band, 15>>,
               <<100 * price >= 95 * upper_band, 10>> >>)
     + Tier(<< <<f > 80, 15>>, <<f > 65, 10>>, <<f < 20, -10>> >>)

TableVolatile(r) == 100 * Val(r.atr14, (r.price.v * 5) \div 100) > 3 * r.price.v

TableUptrend(r) ==
  /\ r.ma5.v > r.ma25.v
  /\ r.ma25.v > r.ma50.v
  /\ r.ma50.v > Val(r.ma111, (r.price.v * 9) \div 10)

TableBuyThreshold(r) == IF TableVolatile(r) THEN 70 ELSE 60

TableSellThreshold(r) ==
  (IF TableVolatile(r) THEN 65 ELSE 70) + (IF TableUptrend(r) THEN 10 ELSE 0)

\* C17: generate_signal returns (buy_score >= buy_threshold,
\* sell_score >= sell_threshold) for the scores of the buy and sell tables
\* with their sentiment tiers, buy_threshold 70 when atr14/price > 0.03
\* else 60, sell_threshold 65 when volatile else 70, plus 10 when
\* ma5 > ma25 > ma50 > ma111.
C17_SignalTables ==
  (IsSome(signals) /\ ~signals[1].fault) =>
    LET r == Row(final_df, idx)
    IN /\ signals[1].buy = (TableBuyScore(r, fgi) >= TableBuyThreshold(r))
       /\ signals[1].sell = (TableSellScore(r, fgi) >= TableSellThreshold(r))

\* a sell score that reaches the plain bar but not the bar of an uptrend
C17_Witness ==
  /\ IsSome(signals)
  /\ ~signals[1].fault
  /\ ~signals[1].sell
  /\ TableUptrend(Row(final_df, idx))
  /\ TableSellScore(Row(final_df, idx), fgi)
       >= TableSellThreshold(Row(final_df, idx)) - 10

\* the trades of the open position: those since its entry
OwnTrades(th, pos) ==
  LET Own(t) == t.datetime >= pos.entry_time
  IN SelectSeq(th, Own)

\* C18: check_dca_buy_opportunity is false when no position is held, and
\* with a position it is true exactly when the DCA-buy score is at least
\* 60 and current_cash is at least 200.  Seen where it is used: the row
\* loop appends a DcaBuy exactly then, and poll_event answers DcaBuy
\* exactly then.
C18_DcaBuyTrigger ==
  /\ [][(RowTaken /\ in_position) =>
          ((/\ Len(trade_history') > Len(trade_history)
            /\ trade_history'[Len(trade_history) + 1].trade_type = "DcaBuy")
           <=>
           (/\ IsSome(position)
            /\ DcaBuyScore(position[1], trade_history, CurRow, fgi, params)
                 >= 60
            /\ current_cash >= 20000))]_vars
  /\ [](IsSome(event) =>
          ((event[1].signal = "DcaBuy")
           <=>
           (/\ IsSome(position)
            /\ DcaBuyScore(position[1], trade_history,
                           Row(final_df, Height(final_df) - 1), fgi, params)
                 >= 60
            /\ current_cash >= 20000)))

\* a DcaBuy was appended on the row just evaluated, and a later row
\* scores 60 or more with too little cash left
C18_Witness ==
  /\ AtRow
  /\ in_position
  /\ IsSome(position)
  /\ CountTrades(trade_history, "DcaBuy") >= 1
  /\ DcaBuyScore(position[1], trade_history, CurRow, fgi, params) >= 60
  /\ current_cash < 20000

\* C19: the -30 of the DCA-buy score applies exactly when the open
\* position has itself recorded at least 3 DcaBuy trades: the score is the
\* one computed over the trades of the open position only.
C19_PenaltyOwnPosition ==
  (AtRow /\ IsSome(position)) =>
    /\ DcaLimitReached(trade_history)
         = (CountTrades(OwnTrades(trade_history, position[1]), "DcaBuy") >= 3)
    /\ DcaBuyScore(position[1], trade_history, CurRow, fgi, params)
         = DcaBuyScore(position[1], OwnTrades(trade_history, position[1]),
                       CurRow, fgi, params)

\* C20: the DCA-sell bar is 65, less 10 when the unrealized gain exceeds
\* 25 percent, plus 15 when at least 2 PartialSell trades are recorded,
\* the two adjustments being independent.
C20_SellBarIndependent ==
  (AtRow /\ IsSome(position) /\ CurRow.price.v > position[1].avg_price) =>
    DcaSellThreshold(position[1], trade_history, CurRow)
      = 65
        - (IF (CurRow.price.v - position[1].avg_price) * 100
                > 25 * position[1].avg_price THEN 10 ELSE 0)
        + (IF CountTrades(trade_history, "PartialSell") >= 2 THEN 15 ELSE 0)

\* the trade a row of the loop appended, if any
Appended(kind) ==
  /\ Len(trade_history') = Len(trade_history) + 1
  /\ trade_history'[Len(trade_history')].trade_type = kind

\* price of the Buy that opened the position now held
RECURSIVE EntryPrice(_)
EntryPrice(th) ==
  IF th = << >> THEN 0
  ELSE IF th[Len(th)].trade_type = "Buy" THEN th[Len(th)].price
  ELSE EntryPrice(SubSeq(th, 1, Len(th) - 1))

\* C21: every DcaBuy of run_simulation is made at a price below
\* avg_price * (1 - dca_buy_threshold), so it does not raise avg_price,
\* and after it avg_price is lower than the entry price of the position.
C21_DcaBuyBelowAvg ==
  [][(RowTaken /\ in_position /\ IsSome(position) /\ Appended("DcaBuy")) =>
       /\ CurRow.price.v * 1000
            < position[1].avg_price * (1000 - params.dca_buy_threshold)
       /\ position'[1].avg_price =< position[1].avg_price
       /\ position'[1].avg_price < EntryPrice(trade_history)]_vars

\* price of the latest FullSell of the run
RECURSIVE LastExitPrice(_)
LastExitPrice(th) ==
  IF th = << >> THEN 0
  ELSE IF th[Len(th)].trade_type = "FullSell" THEN th[Len(th)].price
  ELSE LastExitPrice(SubSeq(th, 1, Len(th) - 1))

\* C22: a profitable full exit at price p sets the waiting latch with
\* last_sell_price = p; while the latch is set no position is held, a row
\* with price >= p appends nothing and leaves the latch set, and the latch
\* is cleared exactly by the row that appends the next Buy.
C22_BetterEntryLatch ==
  /\ [][RowTaken =>
          /\ Appended("FullSell") =>
               /\ waiting_for_better_entry'
               /\ last_sell_price' = CurRow.price.v
               /\ CurRow.price.v > position[1].avg_price
          /\ (waiting_for_better_entry
                /\ CurRow.price.v >= LastExitPrice(trade_history)) =>
               /\ trade_history' = trade_history
               /\ waiting_for_better_entry'
          /\ waiting_for_better_entry =>
               (~waiting_for_better_entry' <=> Appended("Buy"))]_vars
  /\ [](waiting_for_better_entry =>
          /\ ~in_position
          /\ position = None
          /\ last_sell_price = LastExitPrice(trade_history)
          /\ last_sell_price > 0)

\* after a profitable exit, a row that would open a position (buy_now,
\* cash above 100) is passed over because its price is not below the
\* price of the exit
C22_Witness ==
  /\ AtRow
  /\ waiting_for_better_entry
  /\ CountTrades(trade_history, "FullSell") >= 1
  /\ CurRow.price.v >= last_sell_price
  /\ GenerateSignal(final_df, fgi, idx).buy
  /\ current_cash > 10000

\* strong_buying_signal as the claims state it
StrongSignalHere ==
  /\ GenerateSignal(final_df, fgi, idx).buy
  /\ Val(CurRow.rsi, 5000) < 3500
  /\ CurRow.price.v < Val(CurRow.ma25, CurRow.price.v)

\* the Buy a row appended deploys the fraction frac (thousandths) of cash
Deploys(frac) ==
  LET investment == MulDiv(current_cash, frac, 1000)
      t == trade_history'[Len(trade_history')]
  IN /\ Appended("Buy")
     /\ current_cash' = current_cash - investment
     /\ t.price = CurRow.price.v
     /\ t.amount = ((investment
                       - MulDiv(investment, params.generic_fee, 1000)) * 100)
                     \div CurRow.price.v
     /\ in_position'

\* C23: on a row the loop evaluates out of a position with
\* consecutive_losses >= 2, a Buy is appended only under the strong buying
\* signal, and it deploys initial_investment_fraction * 0.7 of
\* current_cash; without the strong signal nothing is bought.
C23_SelectiveEntry ==
  [][(RowTaken /\ ~in_position /\ consecutive_losses >= 2) =>
       IF StrongSignalHere /\ current_cash > 10000
       THEN Deploys((params.initial_investment_fraction * 7) \div 10)
       ELSE /\ trade_history' = trade_history
            /\ current_cash' = current_cash
            /\ ~in_position']_vars

\* an entry made after two losses, right after a plain buy_now row that
\* was refused
C23_Witness ==
  /\ pc = "loop"
  /\ idx >= 2
  /\ consecutive_losses >= 2
  /\ in_position
  /\ LastTrade.trade_type = "Buy"
  /\ LastTrade.datetime = Row(final_df, idx - 1).datetime
  /\ GenerateSignal(final_df, fgi, idx - 2).buy
  /\ LastTrade.datetime > Row(final_df, idx - 2).datetime
  /\ \A k \in 1..Len(trade_history) :
       trade_history[k].datetime # Row(final_df, idx - 2).datetime

NetProceeds(amount, price) ==
  LET gross == (amount * price) \div 100
  IN gross - MulDiv(gross, params.generic_fee, 1000)

\* C25: on a row with a position held, neither DCA opportunity and
\* sell_now, run_simulation makes a full exit when price > avg_price: a
\* FullSell of the whole amount is appended, position becomes None, the
\* latch is set, last_sell_price is the row price and consecutive_losses
\* is 0; when price <= avg_price nothing is sold.
C25_FullExit ==
  [][(RowTaken /\ in_position /\ IsSome(position) /\ ~IsDcaBuy /\ ~IsDcaSell
        /\ GenerateSignal(final_df, fgi, idx).sell) =>
       IF CurRow.price.v > position[1].avg_price
       THEN /\ Appended("FullSell")
            /\ trade_history'[Len(trade_history')].amount = position[1].amount
            /\ trade_history'[Len(trade_history')].price = CurRow.price.v
            /\ current_cash' = current_cash
                 + NetProceeds(position[1].amount, CurRow.price.v)
            /\ position' = None
            /\ ~in_position'
            /\ waiting_for_better_entry'
            /\ last_sell_price' = CurRow.price.v
            /\ consecutive_losses' = 0
       ELSE /\ trade_history' = trade_history
            /\ current_cash' = current_cash
            /\ held' = held
            /\ position' = position]_vars

\* a full exit was made on the row just evaluated, after an earlier
\* sell_now row at a price not above avg_price on which nothing was sold
C25_Witness ==
  /\ pc = "loop"
  /\ idx >= 3
  /\ trade_history # << >>
  /\ LastTrade.trade_type = "FullSell"
  /\ LastTrade.datetime = Row(final_df, idx - 1).datetime
  /\ position = None
  /\ waiting_for_better_entry
  /\ consecutive_losses = 0
  /\ Len(trade_history) = 2
  /\ trade_history[1].datetime < Row(final_df, idx - 2).datetime
  /\ GenerateSignal(final_df, fgi, idx - 2).sell
  /\ Row(final_df, idx - 2).price.v =< trade_history[1].price

\* C26: on a row with a position held, no DCA-buy opportunity and a
\* DCA-sell opportunity, the only trade the row can make is a partial
\* sell: with price <= avg_price * (1 + profit_sell_threshold) cash,
\* held, position and trade_history are unchanged, and no full exit is
\* made even under sell_now.
C26_PartialSellOnly ==
  [][(RowTaken /\ in_position /\ IsSome(position) /\ ~IsDcaBuy /\ IsDcaSell)
       =>
       /\ in_position'
       /\ IsSome(position')
       /\ waiting_for_better_entry' = waiting_for_better_entry
       /\ last_sell_price' = last_sell_price
       /\ consecutive_losses' = consecutive_losses
       /\ IF CurRow.price.v * 1000
               > position[1].avg_price * (1000 + params.profit_sell_threshold)
          THEN /\ Appended("PartialSell")
               /\ position'[1].avg_price = position[1].avg_price
               /\ position'[1].amount
                    = position[1].amount
                        - trade_history'[Len(trade_history')].amount
          ELSE /\ trade_history' = trade_history
               /\ current_cash' = current_cash
               /\ held' = held
               /\ position' = position]_vars

\* the row just evaluated had a DCA-sell opportunity and sell_now at a
\* price above avg_price but not above the take-profit level, and the
\* position is as the entry left it
C26_Witness ==
  /\ pc = "loop"
  /\ idx >= 2
  /\ in_position
  /\ IsSome(position)
  /\ Len(trade_history) = 1
  /\ trade_history[1].datetime < Row(final_df, idx - 1).datetime
  /\ ~CheckDcaBuyOpportunity(position, current_cash, trade_history,
                             final_df, fgi, params, idx - 1)
  /\ CheckDcaSellOpportunity(position, trade_history, final_df, fgi,
                             params, idx - 1)
  /\ GenerateSignal(final_df, fgi, idx - 1).sell
  /\ Row(final_df, idx - 1).price.v > position[1].avg_price
  /\ Row(final_df, idx - 1).price.v * 1000
       =< position[1].avg_price * (1000 + params.profit_sell_threshold)

\* C27: dca_buy with investment = current_cash * scale changes nothing
\* when investment < 100; otherwise it buys
\* amount = investment * (1 - generic_fee) / price (to one hundredth, the
\* rounding of the fixed-point division): cash falls by investment, held
\* and position.amount grow by amount, avg_price becomes the
\* amount-weighted mean of the old avg_price and price, and one DcaBuy
\* trade is appended.
C27_DcaBuyEffect ==
  [][(pc = "dca" /\ pc' = "dca_done" /\ IsSome(position)) =>
       LET pos == position[1]
           price == CurRow.price.v
           investment ==
             MulDiv(current_cash,
                    DcaInvestmentScale(pos.avg_price, price, params), 1000)
           bought == (MulDiv(investment, 1000 - params.generic_fee, 1000)
                        * 100) \div price
           t == trade_history'[Len(trade_history')]
       IN IF investment < 10000
          THEN /\ current_cash' = current_cash
               /\ held' = held
               /\ position' = position
               /\ trade_history' = trade_history
          ELSE /\ Appended("DcaBuy")
               /\ SubSeq(trade_history', 1, Len(trade_history))
                    = trade_history
               /\ t.price = price
               /\ Abs(t.amount - bought) =< 1
               /\ current_cash' = current_cash - investment
               /\ held' = held + t.amount
               /\ position'[1].amount = pos.amount + t.amount
               /\ position'[1].avg_price
                    = (pos.avg_price * pos.amount + price * t.amount)
                        \div (pos.amount + t.amount)]_vars

\* a DCA buy below avg_price that lowered it
C27_Witness ==
  /\ pc = "dca_done"
  /\ Len(trade_history) = 2
  /\ trade_history[2].trade_type = "DcaBuy"
  /\ trade_history[2].amount > 0
  /\ position[1].avg_price < trade_history[1].price
  /\ position[1].avg_price > trade_history[2].price

\* C28: at every row boundary of run_simulation the local in_position is
\* true exactly when self.position is Some.
C28_FlagMatchesPosition ==
  pc = "loop" => (in_position <=> IsSome(position))

ClosingKinds == {"FullSell", "FinalSell"}

\* C29: trade_history is a concatenation of blocks, each one Buy, then
\* DcaBuy and PartialSell trades, then one FullSell or FinalSell; a Buy
\* follows only a closing sell, FinalSell is the last trade, and the
\* last block is closed when run_simulation has returned.
C29_Lifecycle ==
  Simulating =>
    /\ \A k \in 1..Len(trade_history) :
         LET kind == trade_history[k].trade_type
         IN /\ kind = "Buy" =>
                 (k = 1 \/ trade_history[k - 1].trade_type \in ClosingKinds)
            /\ kind # "Buy" =>
                 (k > 1 /\ trade_history[k - 1].trade_type \notin ClosingKinds)
            /\ kind = "FinalSell" => k = Len(trade_history)
    /\ (pc = "done" /\ trade_history # << >>) =>
         LastTrade.trade_type \in ClosingKinds

\* C30: poll_event on a freshly constructed TradingEngine holds no
\* position and answers Buy, Sell or Hold, never DcaBuy or DcaSell.
C30_FreshPoll ==
  pc = "polled" =>
    /\ position = None
    /\ trade_history = << >>
    /\ IsSome(event)
    /\ event[1].signal \in {"Buy", "Sell", "Hold"}

\* a fresh engine polled on an oversold row at its lower band under
\* extreme fear, where the DCA-buy score would reach its bar if a position
\* were held at the row's price
C30_Witness ==
  /\ pc = "polled"
  /\ IsSome(event)
  /\ event[1].signal = "Buy"
  /\ fgi < 20
  /\ LET r == Row(final_df, Height(final_df) - 1)
     IN /\ Val(r.rsi, 5000) < 2500
        /\ r.price.v * 100 =< Val(r.lower_band, 0) * 103

=============================================================================
